---- MODULE Spec2Model ----
(***************************************************************************)
(* The tree-to-AST driver of rholang-parser (parser/parsing.rs): an        *)
(* explicit-stack walk over a concrete syntax tree (CST) that fills an     *)
(* operand stack (proc_stack) and a control stack (cont_stack).            *)
(*                                                                         *)
(* The CST is the input.  Its nodes are numbered 1, 2, ... in the order in *)
(* which the driver gets to know them; node 1 is start_node.  A node's     *)
(* number stands for its byte range, so a span is a node number.  The kind *)
(* and the children of a node are drawn when the node becomes the cursor.  *)
(***************************************************************************)
EXTENDS Integers, Sequences, FiniteSets, TLC

\* Bound on the number of CST nodes of one input tree of the wide family:
\* a root of any shape over leaves and error nodes.
MaxNodes == 6
\* Bounds on the number of CST nodes and of composite nodes of one input
\* tree of the deep family: composites of plain shape, nested.
MaxDeepNodes == 5
MaxComposites == 3
\* Bound on the number of CST nodes of one input tree of the long family: a
\* `let` of one declaration with a remainder variable, over plain leaves.
MaxLongNodes == 8
\* Bound on the number of elements of a variable-length construct
\* (arguments, inputs, collection elements, names, cases).
MaxArity == 2

VARIABLES
    pc,          \* "dispatch" (top of 'parse), "drain" (inner loop), "done", "panic", "hang"
    node,        \* the cursor: the CST node being classified
    cst,         \* the CST revealed so far: node number -> record
    proc_stack,  \* operand stack of AnnProc
    cont_stack,  \* control stack of K
    errors,      \* errors recorded so far
    result,      \* the returned Validated value, once pc = "done"
    panic,       \* the panic message, once pc = "panic"
    made,        \* history: the AnnProcs pushed so far, in the order of the pushes
    scope,       \* the family of input trees the CST is drawn from
    sorted,      \* `new` node -> the order in which sort_unstable left its declarations
    first_walk,  \* the outcome of the first walk, once the tree is walked a second time
    given_slice,     \* Names::from_slice on its own: the slice it is given
    given_flag,      \* Names::from_slice on its own: its flag
    built_names,     \* Names::from_slice on its own: what it returned
    buffer,          \* shell: the edited lines (Vec<String>)
    multiline,       \* shell: the mode flag
    prompt,          \* shell: the prompt last set by update_prompt
    last_call,       \* shell: the last call of a shell function, with what it returned
    switched_by_input, \* shell: an open line has switched the mode since the last .mode
    line_buffer,         \* process_line: its buffer (a String)
    in_multiline_mode,   \* process_line: its mode flag
    execute,             \* process_line: what the last call returned
    entered,             \* process_line: the lines entered so far
    processes,       \* provider: pid -> ProcessInfo of the processes map
    next_pid,        \* provider: the next process ID to assign
    delay_ms,        \* provider: the delay for async interpretation
    calls,           \* provider: call of interpret -> where it stands
    tasks,           \* provider: call of interpret -> its spawned task
    killed_by,       \* provider: pid -> the function that killed it
    last_op,         \* provider: the last call of list/kill, with what it returned
    iter_decl,       \* LetBindingIter: the LetDecl it is made for
    iter_slice,      \* LetBindingIter: the slice it is made over
    iter_state,      \* LetBindingIter: the iterator, once new() has made it
    yielded          \* LetBindingIter: what the calls of next() returned, in order

\* the variables of Names::from_slice called on its own
names_vars == <<given_slice, given_flag, built_names>>

\* the variables of the shell (shell/src/lib.rs)
shell_vars == <<buffer, multiline, prompt, last_call, switched_by_input>>

\* the variables of process_line (shell/src/multiline_helper.rs)
helper_vars == <<line_buffer, in_multiline_mode, execute, entered>>

\* the variables of RholangParserInterpreterProvider (shell/src/providers.rs)
provider_vars == <<processes, next_pid, delay_ms, calls, tasks, killed_by, last_op>>

\* the variables of LetBindingIter driven on its own
iter_vars == <<iter_decl, iter_slice, iter_state, yielded>>

\* the variables that are no part of a walk of the driver
outside_driver == <<names_vars, shell_vars, helper_vars, provider_vars, iter_vars>>

vars == <<pc, node, cst, proc_stack, cont_stack, errors, result, panic, made, scope,
          sorted, first_walk, outside_driver>>

NotCalled == [tag |-> "none"]

\* Names::from_slice has not been called
NamesAtRest ==
    /\ given_slice = <<>>
    /\ given_flag = FALSE
    /\ built_names = NotCalled

NoCall == [fn |-> "none"]

\* the shell as run_shell starts it in single line mode, nothing called yet
ShellAtRest ==
    /\ buffer = <<>>
    /\ multiline = FALSE
    /\ prompt = ">>> "
    /\ last_call = NoCall
    /\ switched_by_input = FALSE

\* process_line has not been called: an empty buffer in single line mode
HelperAtRest ==
    /\ line_buffer = <<>>
    /\ in_multiline_mode = FALSE
    /\ execute = FALSE
    /\ entered = <<>>

\* RholangParserInterpreterProvider::new(), nothing called yet
ProviderAtRest ==
    /\ processes = <<>>
    /\ next_pid = 1
    /\ delay_ms = 2000
    /\ calls = <<>>
    /\ tasks = <<>>
    /\ killed_by = <<>>
    /\ last_op = NoCall

\* no LetBindingIter has been made
IterAtRest ==
    /\ iter_decl = [lhs_arity |-> 0, lhs_has_cont |-> FALSE, rhs_arity |-> 0]
    /\ iter_slice = <<>>
    /\ iter_state = NotCalled
    /\ yielded = <<>>

\* nothing but the driver runs
OutsideAtRest ==
    /\ NamesAtRest
    /\ ShellAtRest
    /\ HelperAtRest
    /\ ProviderAtRest
    /\ IterAtRest

NoProc == [tag |-> "none"]

----------------------------------------------------------------------------
(* Sequence helpers *)

Last(s) == s[Len(s)]
Front(s) == SubSeq(s, 1, Len(s) - 1)
Drop(s, n) == SubSeq(s, n + 1, Len(s))
Take(s, n) == SubSeq(s, 1, n)

RECURSIVE Reverse(_)
Reverse(s) == IF s = <<>> THEN <<>> ELSE Append(Reverse(Tail(s)), Head(s))

RECURSIVE SumSeq(_)
SumSeq(s) == IF s = <<>> THEN 0 ELSE Head(s) + SumSeq(Tail(s))

RECURSIVE Flatten(_)
Flatten(ss) == IF ss = <<>> THEN <<>> ELSE Head(ss) \o Flatten(Tail(ss))

----------------------------------------------------------------------------
(* AST data model (ast.rs) *)

AnnProc(p, span) == [proc |-> p, span |-> span]

NIL == [tag |-> "Nil"]
UNIT == [tag |-> "Unit"]
WILD == [tag |-> "ProcVar", var |-> [tag |-> "Wildcard"]]
BAD == [tag |-> "Bad"]
BoolLiteral(b) == [tag |-> "BoolLiteral", value |-> b]

Id(name, pos) == [name |-> name, pos |-> pos]
alloc_var(id) == [tag |-> "ProcVar", var |-> [tag |-> "Id", id |-> id]]

Ok(v) == [ok |-> TRUE, v |-> v]
Err(msg) == [ok |-> FALSE, msg |-> msg]

\* impl TryFrom<&Proc> for Var
ProcToVar(p) ==
    IF p.tag = "ProcVar" THEN Ok(p.var) ELSE Err("not a var")

\* impl TryFrom<&Proc> for Name
ProcToName(p) ==
    CASE p.tag = "ProcVar" -> Ok([tag |-> "ProcVar", var |-> p.var])
      [] p.tag = "Quote" -> Ok([tag |-> "Quote", proc |-> p.proc])
      [] OTHER -> Err("not a name")

\* impl TryFrom<AnnProc> for AnnName
ToAnnName(ap) ==
    LET n == ProcToName(ap.proc)
    IN IF n.ok THEN Ok([name |-> n.v, span |-> ap.span]) ELSE n

\* impl TryFrom<AnnProc> for Var
ToVar(ap) == ProcToVar(ap.proc)

\* to_names inside Names::from_slice: narrows every element, Err on the first failure
to_names(procs) ==
    IF \A i \in 1..Len(procs) : ToAnnName(procs[i]).ok
    THEN Ok([i \in 1..Len(procs) |-> ToAnnName(procs[i]).v])
    ELSE Err("not a name")

NoVar == [tag |-> "None"]
SomeVar(v) == [tag |-> "Some", var |-> v]

\* Names::from_slice that leaves the last element among the names as well
Names_from_slice_keeping_last(slice, with_remainder) ==
    IF with_remainder
    THEN IF slice = <<>> THEN Err("attempt to build 'x, y ...@z' out of zero names")
         ELSE LET names == to_names(slice)
                  remainder == ToVar(Last(slice))
              IN IF ~names.ok THEN names
                 ELSE IF ~remainder.ok THEN remainder
                 ELSE Ok([names |-> names.v, remainder |-> SomeVar(remainder.v)])
    ELSE IF slice = <<>> THEN Err("attempt to build empty names")
         ELSE LET names == to_names(slice)
              IN IF ~names.ok THEN names
                 ELSE Ok([names |-> names.v, remainder |-> NoVar])

\* Names::from_slice
Names_from_slice(slice, with_remainder) ==
    IF with_remainder
    THEN IF slice = <<>> THEN Err("attempt to build 'x, y ...@z' out of zero names")
         ELSE IF Front(slice) = <<>> THEN Err("attempt to build 'x, y ...@z' out of one name")
         ELSE LET names == to_names(Front(slice))
                  remainder == ToVar(Last(slice))
              IN IF ~names.ok THEN names
                 ELSE IF ~remainder.ok THEN remainder
                 ELSE Ok([names |-> names.v, remainder |-> SomeVar(remainder.v)])
    ELSE IF slice = <<>> THEN Err("attempt to build empty names")
         ELSE LET names == to_names(slice)
              IN IF ~names.ok THEN names
                 ELSE Ok([names |-> names.v, remainder |-> NoVar])

----------------------------------------------------------------------------
(* The CST as the driver sees it *)

\* A node that has not been the cursor yet: only its place is known.
Unrevealed(role, parent) ==
    [kind |-> "?", role |-> role, parent |-> parent, info |-> <<>>, base |-> 0]

\* The children of a list-like node: anonymous tokens (id 0) around and
\* between the named children.
Tok == [id |-> 0, named |-> FALSE]
Named(id) == [id |-> id, named |-> TRUE]

RECURSIVE WithTokens(_)
WithTokens(ids) ==
    IF ids = <<>> THEN <<Tok>>
    ELSE <<Tok, Named(Head(ids))>> \o WithTokens(Tail(ids))

\* a span or position inside node n that is not the span of a numbered node
Within(n, k) == 100 * n + k

\* the cursor node was classified by an earlier walk of the same tree
Known == cst[node].kind # "?"

\* The children of the cursor node are numbered Base + 1, Base + 2, ...: the
\* numbers after those given out when the node is first classified.
Base == IF Known THEN cst[node].base ELSE Len(cst)
FreshIds(k) == [i \in 1..k |-> Base + i]
\* The input trees are drawn from three families.  "wide": the root is a node
\* of any kind and shape, its children are leaves and error nodes.  "deep":
\* composites nest, each of the plainest shape of its kind.  "long": the root
\* is a `let` of one declaration with a remainder variable, its children are
\* leaves and error nodes.
Scopes == {"wide", "deep", "long"}
Wide == scope = "wide"
Long == scope = "long"
node_limit == IF Wide THEN MaxNodes ELSE IF Long THEN MaxLongNodes ELSE MaxDeepNodes
Room(k) == Base + k <= node_limit
\* composite nodes revealed so far
Composites ==
    Cardinality({ i \in 1..Len(cst) : /\ cst[i].kind \notin {"?", "ERROR", "MISSING"}
                                       /\ \E j \in 1..Len(cst) : cst[j].parent = i })

\* cst after the cursor node turned out to be of `kind` with the given
\* children (one role per child, in source order).
\* A node classified by an earlier walk is what it was then: any other
\* classification yields no tree at all.
Reveal(kind, info, roles) ==
    IF Known
    THEN IF /\ cst[node].kind = kind
            /\ cst[node].info = info
            /\ { i \in 1..Len(cst) : cst[i].parent = node } =
                    { Base + i : i \in 1..Len(roles) }
            /\ \A i \in 1..Len(roles) : cst[Base + i].role = roles[i]
         THEN cst ELSE <<>>
    ELSE [i \in 1..(Base + Len(roles)) |->
            IF i = node THEN [cst[i] EXCEPT !.kind = kind, !.info = info, !.base = Base]
            ELSE IF i <= Base THEN cst[i]
            ELSE Unrevealed(roles[i - Base], node)]

Role == cst[node].role
IsRoot == node = 1

IsErrorKind(k) == k \in {"ERROR", "MISSING"}

\* start_node.has_error() that overlooks missing-token nodes
has_error_without_missing == \E i \in 1..Len(cst) : cst[i].kind = "ERROR"

\* tree_sitter::Node::has_error of start_node
has_error == \E i \in 1..Len(cst) : IsErrorKind(cst[i].kind)

----------------------------------------------------------------------------
(* ProcStack *)

push(stack, p, span) == Append(stack, AnnProc(p, span))

\* a to_proc_partial as strict as to_proc: a tree only when one operand is left
to_proc_partial_strict(stack) ==
    IF Len(stack) = 1 THEN [tag |-> "Some", v |-> Last(stack)] ELSE NoProc

\* ProcStack::to_proc_partial
to_proc_partial(stack) ==
    IF stack = <<>> THEN NoProc ELSE [tag |-> "Some", v |-> Last(stack)]

----------------------------------------------------------------------------
(* Source text of the leaves *)

QUOTE == "dq"
BACKTICK == "bt"

\* Texts of var nodes, string_literal nodes and uri_literal nodes of the input.
VarTexts == {"x"}
StringTexts == {<<QUOTE, "h", "i", QUOTE>>, <<QUOTE, "bs", QUOTE, QUOTE>>}
UriTexts == {<<BACKTICK, "u", BACKTICK>>}
SimpleTypeTexts == {"Bool", "Int", "String", "Uri", "ByteArray"}
BoolTexts == {"true", "false"}

\* Texts of long_literal nodes: a sign and decimal digits.
I64MaxDigits == <<9, 2, 2, 3, 3, 7, 2, 0, 3, 6, 8, 5, 4, 7, 7, 5, 8, 0, 7>>
I64MinDigits == <<9, 2, 2, 3, 3, 7, 2, 0, 3, 6, 8, 5, 4, 7, 7, 5, 8, 0, 8>>
LongTexts ==
    { [neg |-> FALSE, digits |-> <<1>>],
      [neg |-> FALSE, digits |-> I64MinDigits] }
DeepLongTexts == { [neg |-> FALSE, digits |-> I64MinDigits] }
RootLongTexts ==
    LongTexts \cup
    { [neg |-> FALSE, digits |-> <<0>>],
      [neg |-> TRUE, digits |-> <<0>>],
      [neg |-> FALSE, digits |-> <<0, 7>>],
      [neg |-> FALSE, digits |-> <<0>> \o I64MaxDigits],
      [neg |-> FALSE, digits |-> I64MaxDigits],
      [neg |-> TRUE, digits |-> I64MinDigits],
      [neg |-> TRUE, digits |-> <<9, 2, 2, 3, 3, 7, 2, 0, 3, 6, 8, 5, 4, 7, 7, 5, 8, 0, 9>>] }

\* a <= b for digit strings of equal length
RECURSIVE DigitsLeq(_, _)
DigitsLeq(a, b) ==
    IF a = <<>> THEN TRUE
    ELSE IF Head(a) < Head(b) THEN TRUE
    ELSE IF Head(a) > Head(b) THEN FALSE
    ELSE DigitsLeq(Tail(a), Tail(b))

\* the digits of a number without its leading zeros
RECURSIVE StripZeros(_)
StripZeros(digits) ==
    IF Len(digits) > 1 /\ Head(digits) = 0 THEN StripZeros(Tail(digits)) ELSE digits

\* a conversion that saturates: a number outside the range becomes the nearest
\* bound
ParseI64_saturating(text) ==
    LET digits == StripZeros(text.digits)
        limit == IF text.neg THEN I64MinDigits ELSE I64MaxDigits
        fits == \/ Len(digits) < Len(limit)
                \/ Len(digits) = Len(limit) /\ DigitsLeq(digits, limit)
    IN Ok([neg |-> text.neg /\ digits # <<0>>,
           digits |-> IF fits THEN digits ELSE limit])

\* str::parse::<i64>: Ok(value) when the number the text denotes is within the
\* signed 64-bit range.  The value is kept as a sign and the digits of its
\* magnitude; zero has no sign.
ParseI64(text) ==
    LET digits == StripZeros(text.digits)
        limit == IF text.neg THEN I64MinDigits ELSE I64MaxDigits
        fits == \/ Len(digits) < Len(limit)
                \/ Len(digits) = Len(limit) /\ DigitsLeq(digits, limit)
    IN IF fits THEN Ok([neg |-> text.neg /\ digits # <<0>>, digits |-> digits])
       ELSE Err("number too large to fit in target type")

\* str::trim_matches(c): strips every leading and every trailing c
RECURSIVE TrimStart(_, _)
TrimStart(s, c) ==
    IF s # <<>> /\ Head(s) = c THEN TrimStart(Tail(s), c) ELSE s
RECURSIVE TrimEnd(_, _)
TrimEnd(s, c) ==
    IF s # <<>> /\ Last(s) = c THEN TrimEnd(Front(s), c) ELSE s
trim_matches(s, c) == TrimEnd(TrimStart(s, c), c)

\* ASTBuilder leaf allocators
alloc_string_literal(value) == [tag |-> "StringLiteral", value |-> trim_matches(value, QUOTE)]
alloc_long_literal(value) == [tag |-> "LongLiteral", value |-> value]
alloc_uri_literal(value) == [tag |-> "UriLiteral", value |-> trim_matches(value, BACKTICK)]
alloc_simple_type(value) == [tag |-> "SimpleType", value |-> value]
alloc_var_ref(kind, var) == [tag |-> "VarRef", kind |-> kind, var |-> var]

----------------------------------------------------------------------------
(* node_to_ast: classification of the cursor node *)

Init ==
    /\ pc = "dispatch"
    /\ node = 1
    /\ cst = <<Unrevealed("proc", 0)>>
    /\ proc_stack = <<>>
    /\ cont_stack = <<>>
    /\ errors = <<>>
    /\ result = [tag |-> "none"]
    /\ panic = ""
    /\ made = <<>>
    /\ scope \in Scopes
    /\ sorted = <<>>
    /\ first_walk = [tag |-> "none"]
    /\ OutsideAtRest

\* What the grammar puts where: a name is a variable or a quote, a remainder
\* is a variable.
GrammarAllows(kind) ==
    CASE Role = "proc" -> TRUE
      [] Role = "name" -> kind \in {"var", "wildcard", "quote"}
      [] Role = "var" -> kind \in {"var", "wildcard"}
      [] OTHER -> FALSE

\* Leaf kinds drawn below the root; the root draws from all of them.
ChildLeafKinds == {"nil", "var", "wildcard", "long_literal"}
LeafHere(kind) ==
    /\ pc = "dispatch"
    /\ Known => cst[node].kind = kind
    /\ GrammarAllows(kind)
    /\ IsRoot \/ kind \in ChildLeafKinds
    /\ IsRoot \/ kind # "wildcard" \/ (Wide /\ Role = "var")
    /\ Long => ~IsRoot
    /\ IsRoot \/ Wide \/ kind # "var" \/ Role # "proc"

\* a leaf arm: the node is pushed and the drain loop is entered
PushLeaf(kind, info, p) ==
    /\ cst' = Reveal(kind, info, <<>>)
    /\ proc_stack' = push(proc_stack, p, node)
    /\ made' = Append(made, AnnProc(p, node))
    /\ pc' = "drain"
    /\ UNCHANGED <<node, cont_stack, errors, result, panic, scope, outside_driver, sorted, first_walk>>

DispatchWildcard ==
    /\ LeafHere("wildcard")
    /\ PushLeaf("wildcard", <<>>, WILD)

DispatchVar ==
    /\ LeafHere("var")
    /\ \E text \in VarTexts :
        PushLeaf("var", [text |-> text], alloc_var(Id(text, node)))

DispatchNil ==
    /\ LeafHere("nil")
    /\ PushLeaf("nil", <<>>, NIL)

DispatchUnit ==
    /\ LeafHere("unit")
    /\ PushLeaf("unit", <<>>, UNIT)

DispatchSimpleType ==
    /\ LeafHere("simple_type")
    /\ \E text \in SimpleTypeTexts :
        PushLeaf("simple_type", [text |-> text], alloc_simple_type(text))

DispatchBoolLiteral ==
    /\ LeafHere("bool_literal")
    /\ \E text \in BoolTexts :
        PushLeaf("bool_literal", [text |-> text], BoolLiteral(text = "true"))

NumberOutOfRange(span) == [error |-> [tag |-> "NumberOutOfRange"], span |-> span]

DispatchLongLiteral ==
    /\ LeafHere("long_literal")
    /\ \E text \in (IF IsRoot THEN RootLongTexts
                    ELSE IF Wide THEN LongTexts ELSE DeepLongTexts) :
        LET parsed == ParseI64(text)
        IN IF parsed.ok
           THEN PushLeaf("long_literal", [text |-> text], alloc_long_literal(parsed.v))
           ELSE /\ cst' = Reveal("long_literal", [text |-> text], <<>>)
                /\ errors' = Append(errors, NumberOutOfRange(node))
                /\ proc_stack' = push(proc_stack, BAD, node)
                /\ made' = Append(made, AnnProc(BAD, node))
                /\ pc' = "drain"
                /\ UNCHANGED <<node, cont_stack, result, panic, scope, outside_driver, sorted, first_walk>>

DispatchStringLiteral ==
    /\ LeafHere("string_literal")
    /\ \E text \in StringTexts :
        PushLeaf("string_literal", [text |-> text], alloc_string_literal(text))

DispatchUriLiteral ==
    /\ LeafHere("uri_literal")
    /\ \E text \in UriTexts :
        PushLeaf("uri_literal", [text |-> text], alloc_uri_literal(text))

DispatchVarRef ==
    /\ LeafHere("var_ref")
    /\ \E kind \in {"=", "=*"}, text \in VarTexts :
        PushLeaf("var_ref", [kind |-> kind, text |-> text],
                 alloc_var_ref(IF kind = "=" THEN "Proc" ELSE "Name",
                               Id(text, Within(node, 2))))

\* An error node or a missing-token node under the cursor.  The children of
\* an error node are part of the tree but the driver is not to visit them.
ErrorContents == {"plain", "var", "char", "nested"}

\* a bad arm that tests is_error only: a missing-token node is classified by
\* its kind and pushed as the (empty) token it stands for
BadArmErrorOnly(kind, content) ==
    LET inner == IF content \in {"plain", "token"} THEN <<>> ELSE <<"in_error">>
        shown == Reveal(kind, [content |-> content], inner)
    IN /\ Room(Len(inner))
       /\ cst' = [i \in 1..Len(shown) |->
                    IF i <= Base \/ i > Base + Len(inner) THEN shown[i]
                    ELSE [shown[i] EXCEPT
                            !.kind = IF content = "var" THEN "var" ELSE "ERROR",
                            !.info = [content |-> "plain"]]]
       /\ LET p == IF kind = "MISSING" THEN alloc_var(Id("", node)) ELSE BAD
          IN /\ proc_stack' = push(proc_stack, p, node)
             /\ made' = Append(made, AnnProc(p, node))
       /\ pc' = "drain"
       /\ UNCHANGED <<node, cont_stack, errors, result, panic, scope, outside_driver, sorted, first_walk>>

\* the bad arm for a node of `kind` with the given content: the sentinel is
\* pushed with the range of the node and the drain loop is entered
BadArm(kind, content) ==
    LET inner == IF content \in {"plain", "token"} THEN <<>> ELSE <<"in_error">>
        shown == Reveal(kind, [content |-> content], inner)
    IN /\ Room(Len(inner))
       /\ cst' = [i \in 1..Len(shown) |->
                    IF i <= Base \/ i > Base + Len(inner) THEN shown[i]
                    ELSE [shown[i] EXCEPT
                            !.kind = IF content = "var" THEN "var" ELSE "ERROR",
                            !.info = [content |-> "plain"]]]
       /\ proc_stack' = push(proc_stack, BAD, node)
       /\ made' = Append(made, AnnProc(BAD, node))
       /\ pc' = "drain"
       /\ UNCHANGED <<node, cont_stack, errors, result, panic, scope, outside_driver, sorted, first_walk>>

DispatchBad ==
    /\ pc = "dispatch"
    /\ \E kind \in {"ERROR", "MISSING"} :
       \E content \in (IF kind = "ERROR" THEN ErrorContents ELSE {"token"}) :
        /\ Known => cst[node].kind = kind
        /\ IsRoot \/ content \in (IF Wide THEN {"plain", "token", "var"} ELSE {"plain"})
        /\ IsRoot \/ Wide \/ kind = "ERROR"
        /\ Long => ~IsRoot
        /\ BadArm(kind, content)

----------------------------------------------------------------------------
(* Continuations (enum K) *)

EvalDelayed(n) == [k |-> "EvalDelayed", node |-> n]
\* a TreeCursor made by walk(): it stands on the node itself (at = 0, depth 0)
\* until it is first moved
EvalList(children) == [k |-> "EvalList", children |-> children, at |-> 0]

\* a composite arm: continuations are pushed and the cursor descends
DescendWith(kind, info, roles, ks, next, errs) ==
    /\ Room(Len(roles))
    /\ cst' = Reveal(kind, info, roles)
    /\ cont_stack' = cont_stack \o ks
    /\ errors' = errors \o errs
    /\ node' = next
    /\ pc' = "dispatch"
    /\ UNCHANGED <<proc_stack, result, panic, made, scope, outside_driver, first_walk>>

Descend(kind, info, roles, ks, next) ==
    /\ DescendWith(kind, info, roles, ks, next, <<>>)
    /\ UNCHANGED sorted

\* below the root, composites are drawn in the deep family only
CompositeHere(kind) ==
    /\ pc = "dispatch"
    /\ Known => cst[node].kind = kind
    /\ GrammarAllows(kind)
    /\ Known \/ IsRoot \/ (~Wide /\ Composites < MaxComposites)
    /\ Long => IsRoot /\ kind = "let"

Kid(i) == Base + i
Kids(from, n) == [i \in 1..n |-> Base + from + i - 1]
Roles(n, role) == [i \in 1..n |-> role]

DispatchBlock ==
    /\ CompositeHere("block")
    /\ Descend("block", <<>>, <<"proc">>, <<>>, Kid(1))

DispatchPar ==
    /\ CompositeHere("par")
    /\ Descend("par", [left |-> Kid(1), right |-> Kid(2)], <<"proc", "proc">>,
               <<[k |-> "ConsumePar", span |-> node], EvalDelayed(Kid(2))>>,
               Kid(1))

DispatchEval ==
    /\ CompositeHere("eval")
    /\ Descend("eval", [name |-> Kid(1)], <<"name">>,
               <<[k |-> "ConsumeEval", span |-> node]>>, Kid(1))

DispatchQuote ==
    /\ CompositeHere("quote")
    /\ Descend("quote", [proc |-> Kid(1)], <<"proc">>,
               <<[k |-> "ConsumeQuote", span |-> node]>>, Kid(1))

MethodNames == {"length"}

DispatchMethod ==
    /\ CompositeHere("method")
    /\ \E arity \in (IF Wide THEN 0..MaxArity ELSE {1}), name \in MethodNames :
        Descend("method",
                [receiver |-> Kid(1), name |-> name, args |-> Kids(2, arity)],
                <<"proc">> \o Roles(arity, "proc"),
                <<[k |-> "ConsumeMethod", id |-> Id(name, node), arity |-> arity,
                   span |-> node],
                  EvalList(WithTokens(Kids(2, arity)))>>,
                Kid(1))

\* kinds of binary expression nodes and the operator each maps to
BinaryOpOf(kind) ==
    CASE kind = "or" -> "Or"
      [] kind = "and" -> "And"
      [] kind = "matches" -> "Matches"
      [] kind = "eq" -> "Eq"
      [] kind = "neq" -> "Neq"
      [] kind = "lt" -> "Lt"
      [] kind = "lte" -> "Lte"
      [] kind = "gt" -> "Gt"
      [] kind = "gte" -> "Gte"
      [] kind = "concat" -> "Concat"
      [] kind = "diff" -> "Diff"
      [] kind = "add" -> "Add"
      [] kind = "sub" -> "Sub"
      [] kind = "interpolation" -> "Interpolation"
      [] kind = "mult" -> "Mult"
      [] kind = "div" -> "Div"
      [] kind = "mod" -> "Mod"
      [] kind = "disjunction" -> "Disjunction"
      [] OTHER -> "Conjunction"

\* binary and unary kinds drawn for the input
BinaryKinds == {"or", "add", "conjunction"}
UnaryKinds == {"neg", "not", "negation"}

DispatchBinaryExp ==
    /\ \E kind \in BinaryKinds :
        /\ CompositeHere(kind)
        /\ Wide \/ kind = "add"
        /\ Descend(kind, [left |-> Kid(1), right |-> Kid(2)], <<"proc", "proc">>,
                   <<[k |-> "ConsumeBinaryExp", op |-> BinaryOpOf(kind), span |-> node],
                     EvalDelayed(Kid(2))>>,
                   Kid(1))

UnaryOpOf(kind) ==
    CASE kind = "neg" -> "Neg"
      [] kind = "not" -> "Not"
      [] OTHER -> "Negation"

DispatchUnaryExp ==
    /\ \E kind \in UnaryKinds :
        /\ CompositeHere(kind)
        /\ Wide \/ kind = "not"
        /\ Descend(kind, [arg |-> Kid(1)], <<"proc">>,
                   <<[k |-> "ConsumeUnaryExp", op |-> UnaryOpOf(kind), span |-> node]>>,
                   Kid(1))

\* eval_named_pairs that delays only the first node of each pair
eval_named_pairs_fst_only(pairs) ==
    Reverse([i \in 1..Len(pairs) |-> EvalDelayed(pairs[i][1])])

\* eval_named_pairs without the final reverse
eval_named_pairs_unreversed(pairs) ==
    Flatten([i \in 1..Len(pairs) |->
                <<EvalDelayed(pairs[i][1]), EvalDelayed(pairs[i][2])>>])

\* eval_named_pairs: EvalDelayed(fst), EvalDelayed(snd) per pair, then the
\* whole sequence reversed; returns the continuations (the arity is Len(pairs))
eval_named_pairs(pairs) ==
    Reverse(Flatten([i \in 1..Len(pairs) |->
                        <<EvalDelayed(pairs[i][1]), EvalDelayed(pairs[i][2])>>]))

PairsAt(from, n) == [i \in 1..n |-> <<Base + from + 2 * (i - 1), Base + from + 2 * (i - 1) + 1>>]

\* kind "collection": list, set, tuple or map.  The arm does not continue
\* 'parse: it falls through to the drain loop.
DispatchCollection ==
    /\ CompositeHere("collection")
    /\ \E collection_type \in {"list", "set", "tuple", "map"} :
       \E n \in 0..MaxArity, has_remainder \in BOOLEAN :
        LET rem == IF has_remainder THEN 1 ELSE 0
            is_map == collection_type = "map"
            count == IF is_map THEN 2 * n + rem ELSE n + rem
            roles == Roles(count - rem, "proc") \o Roles(rem, "var")
            named_child_count == n + rem
            info == [type |-> collection_type, n |-> n, has_remainder |-> has_remainder,
                     first |-> Kid(1)]
            ks == IF is_map
                  THEN <<[k |-> "ConsumeMap", arity |-> n,
                          has_remainder |-> has_remainder, span |-> node]>>
                       \o eval_named_pairs(PairsAt(1, n))
                       \o (IF has_remainder THEN <<EvalDelayed(Kid(count))>> ELSE <<>>)
                  ELSE IF collection_type = "tuple"
                  THEN <<[k |-> "ConsumeTuple", arity |-> named_child_count, span |-> node],
                         EvalList(WithTokens(Kids(1, count)))>>
                  ELSE <<[k |-> IF collection_type = "list" THEN "ConsumeList"
                                ELSE "ConsumeSet",
                          arity |-> named_child_count,
                          has_remainder |-> has_remainder, span |-> node],
                         EvalList(WithTokens(Kids(1, count)))>>
        IN /\ collection_type = "tuple" => ~has_remainder /\ n >= 1
           /\ Wide \/ (collection_type \in {"list", "map"} /\ n = 1 /\ ~has_remainder)
           /\ Room(count)
           /\ cst' = Reveal("collection", info, roles)
           /\ cont_stack' = cont_stack \o ks
           /\ pc' = "drain"
           /\ UNCHANGED <<node, proc_stack, errors, result, panic, made, scope, outside_driver, sorted, first_walk>>

DispatchSend ==
    /\ CompositeHere("send")
    /\ \E send_type_kind \in {"send_single", "send_multiple"}, arity \in 0..MaxArity :
        /\ Wide \/ (send_type_kind = "send_single" /\ arity = 1)
        /\ Descend("send",
                [channel |-> Kid(1), send_type |-> send_type_kind,
                 inputs |-> Kids(2, arity)],
                <<"name">> \o Roles(arity, "proc"),
                <<[k |-> "ConsumeSend",
                   send_type |-> IF send_type_kind = "send_single" THEN "Single"
                                 ELSE "Multiple",
                   arity |-> arity, span |-> node],
                  EvalList(WithTokens(Kids(2, arity)))>>,
                Kid(1))

DispatchIfElse ==
    /\ CompositeHere("ifElse")
    /\ \E has_alternative \in (IF Wide THEN BOOLEAN ELSE {FALSE}) :
        Descend("ifElse",
                [condition |-> Kid(1), consequence |-> Kid(2),
                 alternative |-> IF has_alternative THEN Kid(3) ELSE 0],
                IF has_alternative THEN <<"proc", "proc", "proc">> ELSE <<"proc", "proc">>,
                (IF has_alternative
                 THEN <<[k |-> "ConsumeIfThenElse", span |-> node], EvalDelayed(Kid(3))>>
                 ELSE <<[k |-> "ConsumeIfThen", span |-> node]>>)
                \o <<EvalDelayed(Kid(2))>>,
                Kid(1))

BundleTypeOf(kind) ==
    CASE kind = "bundle_write" -> "BundleWrite"
      [] kind = "bundle_read" -> "BundleRead"
      [] kind = "bundle_equiv" -> "BundleEquiv"
      [] OTHER -> "BundleReadWrite"

DispatchBundle ==
    /\ CompositeHere("bundle")
    /\ \E bundle_kind \in {"bundle_write", "bundle_read", "bundle_equiv",
                           "bundle_read_write"} :
        /\ Wide \/ bundle_kind = "bundle_read"
        /\ Descend("bundle", [bundle_type |-> bundle_kind, proc |-> Kid(1)], <<"proc">>,
                   <<[k |-> "ConsumeBundle", typ |-> BundleTypeOf(bundle_kind),
                      span |-> node]>>,
                   Kid(1))

DispatchSendSync ==
    /\ CompositeHere("send_sync")
    /\ \E arity \in 0..MaxArity, choice \in {"empty_cont", "non_empty_cont"} :
        LET with_cont == choice = "non_empty_cont"
        IN /\ Wide \/ (arity = 0 /\ ~with_cont)
           /\ Descend("send_sync",
                   [channel |-> Kid(1), inputs |-> Kids(2, arity),
                    cont |-> IF with_cont THEN Kid(arity + 2) ELSE 0],
                   <<"name">> \o Roles(arity, "proc")
                       \o (IF with_cont THEN <<"proc">> ELSE <<>>),
                   (IF with_cont
                    THEN <<[k |-> "ConsumeSendSyncWithCont", span |-> node, arity |-> arity],
                           EvalDelayed(Kid(arity + 2))>>
                    ELSE <<[k |-> "ConsumeSendSync", span |-> node, arity |-> arity]>>)
                   \o <<EvalList(WithTokens(Kids(2, arity)))>>,
                   Kid(1))

DispatchContract ==
    /\ CompositeHere("contract")
    /\ \E has_formals \in BOOLEAN, n \in 0..MaxArity, has_cont \in BOOLEAN :
        LET count == IF has_formals THEN n + (IF has_cont THEN 1 ELSE 0) ELSE 0
            formals == Kids(2, count)
            proc_node == Kid(count + 2)
        IN /\ has_formals => n >= 1
           /\ Wide \/ (n <= 1 /\ ~has_cont)
           /\ ~has_formals => n = 0 /\ ~has_cont
           /\ Descend("contract",
                      [name |-> Kid(1), has_formals |-> has_formals, formals |-> formals,
                       has_cont |-> has_cont, proc |-> proc_node],
                      <<"name">> \o Roles(IF has_formals THEN n ELSE 0, "name")
                          \o (IF has_formals /\ has_cont THEN <<"var">> ELSE <<>>)
                          \o <<"proc">>,
                      (IF has_formals
                       THEN <<[k |-> "ConsumeContract", arity |-> count,
                               has_cont |-> has_cont, span |-> node],
                              EvalList(WithTokens(formals))>>
                       ELSE <<[k |-> "ConsumeContract", arity |-> 0,
                               has_cont |-> FALSE, span |-> node]>>)
                      \o <<EvalDelayed(proc_node)>>,
                      Kid(1))

DispatchMatch ==
    /\ CompositeHere("match")
    /\ \E arity \in (IF Wide THEN 1..MaxArity ELSE {1}) :
        Descend("match",
                [expression |-> Kid(1), cases |-> PairsAt(2, arity)],
                Roles(1 + 2 * arity, "proc"),
                <<[k |-> "ConsumeMatch", span |-> node, arity |-> arity]>>
                \o eval_named_pairs(PairsAt(2, arity)),
                Kid(1))

----------------------------------------------------------------------------
(* kind "new" *)

\* Bound on the number of declarations of one `new`.
MaxDecls == 3
\* identifiers declared by the input, and their order under str::cmp
DeclNames == {"a", "b"}
NameRank(name) == IF name = "a" THEN 1 ELSE 2
UriOptions == {"None", "rho:io:stdout"}

\* the declaration lists drawn for a `new`: the identifiers in source order
\* and whether the first one carries a URI
DeclTexts ==
    UNION { [1..k -> DeclNames] : k \in 1..MaxDecls }

\* parse_decls
parse_decls(names, uri) ==
    [i \in 1..Len(names) |->
        [id |-> Id(names[i], Within(node, i)),
         uri |-> IF i = 1 THEN uri ELSE "None"]]

\* impl Ord for NameDecl: by identifier only
NameDeclLeq(a, b) == NameRank(a.id.name) <= NameRank(b.id.name)
\* an equality of NameDecl that looks at the URI as well
NameDeclEq_with_uri(a, b) == a.id.name = b.id.name /\ a.uri = b.uri

\* impl PartialEq for NameDecl: by identifier only
NameDeclEq(a, b) == a.id.name = b.id.name

\* Vec::dedup: of every run of equal elements the first one is kept
RECURSIVE dedup(_)
dedup(decls) ==
    IF Len(decls) <= 1 THEN decls
    ELSE IF NameDeclEq(decls[1], decls[2]) THEN dedup(<<decls[1]>> \o Tail(Tail(decls)))
    ELSE <<decls[1]>> \o dedup(Tail(decls))

\* a sort that also removes the duplicates, as a sorted set would
sort_unstable_dedup(decls) ==
    LET n == Len(decls)
        perms == { f \in [1..n -> 1..n] : \A i, j \in 1..n : i # j => f[i] # f[j] }
    IN { dedup([i \in 1..n |-> decls[f[i]]]) : f \in
            { g \in perms : \A i \in 1..(n - 1) : NameDeclLeq(decls[g[i]], decls[g[i + 1]]) } }

\* a sort that leaves the declarations in source order
sort_unstable_in_source_order(decls) == {decls}

\* slice::sort_unstable: some ordering of the elements that is sorted; the
\* order of equal elements is not specified
sort_unstable(decls) ==
    LET n == Len(decls)
        perms == { f \in [1..n -> 1..n] : \A i, j \in 1..n : i # j => f[i] # f[j] }
    IN { [i \in 1..n |-> decls[f[i]]] : f \in
            { g \in perms : \A i \in 1..(n - 1) : NameDeclLeq(decls[g[i]], decls[g[i + 1]]) } }

\* a sort that orders equal elements anew on every call
sorted_afresh(decls) == sort_unstable(decls)

\* decls.sort_unstable() as the build at hand performs it: the order of equal
\* elements is not specified, but the sort is a function of its input, so the
\* declarations of a node sorted before come out as they did then
sorted_by_build(decls) ==
    IF node \in DOMAIN sorted THEN {sorted[node]} ELSE sort_unstable(decls)

\* decls.windows(2).find(|w| w[0] == w[1]): index of the first adjacent equal pair, or 0
FindDuplicate(decls) ==
    LET hits == { i \in 1..(Len(decls) - 1) : NameDeclEq(decls[i], decls[i + 1]) }
    IN IF hits = {} THEN 0 ELSE CHOOSE i \in hits : \A j \in hits : i <= j

DuplicateNameDecl(first, second, span) ==
    [error |-> [tag |-> "DuplicateNameDecl", first |-> first, second |-> second],
     span |-> span]

DispatchNew ==
    /\ CompositeHere("new")
    /\ \E names \in DeclTexts, uri \in UriOptions :
       \E decls \in sorted_by_build(parse_decls(names, uri)) :
        LET dup == FindDuplicate(decls)
            p1 == decls[dup].id.pos
            p2 == decls[dup + 1].id.pos
            first == IF p2 < p1 THEN p2 ELSE p1
            second == IF p2 < p1 THEN p1 ELSE p2
        IN /\ Wide \/ (Len(names) = 1 /\ uri = "None")
           /\ DescendWith("new", [names |-> names, uri |-> uri, proc |-> Kid(1)],
                          <<"proc">>,
                          <<[k |-> "ConsumeNew", decls |-> decls, span |-> node]>>,
                          Kid(1),
                          IF dup = 0 THEN <<>>
                          ELSE <<DuplicateNameDecl(first, second, Within(node, 0))>>)
           /\ sorted' = [n \in DOMAIN sorted \cup {node} |->
                            IF n = node THEN decls ELSE sorted[n]]

----------------------------------------------------------------------------
(* kind "let" *)

\* Bound on the number of declarations of one `let`.
MaxLetDecls == 2

\* one declaration: `names` left-hand names, an optional remainder variable
\* (counted in the left-hand arity), `rhs` right-hand values
LetDeclShapes ==
    { d \in [names : 1..MaxArity, cont : BOOLEAN, rhs : 1..(MaxArity + 1)] : TRUE }
lhs_arity_of(d) == d.names + (IF d.cont THEN 1 ELSE 0)
LetDeclCost(d) == lhs_arity_of(d) + d.rhs

\* sequences of n declarations that fit in `room` nodes
RECURSIVE LetDeclSeqs(_, _)
LetDeclSeqs(n, room) ==
    IF n = 0 THEN {<<>>}
    ELSE UNION { { <<d>> \o rest : rest \in LetDeclSeqs(n - 1, room - LetDeclCost(d)) } :
                 d \in { e \in LetDeclShapes : LetDeclCost(e) + 2 * (n - 1) <= room } }

MalformedLetDecl(lhs_arity, rhs_arity, span) ==
    [error |-> [tag |-> "MalformedLetDecl", lhs_arity |-> lhs_arity, rhs_arity |-> rhs_arity],
     span |-> span]

\* number of nodes of the declarations before declaration i
RECURSIVE LetOffset(_, _)
LetOffset(shape, i) ==
    IF i <= 1 THEN 0 ELSE LetOffset(shape, i - 1) + LetDeclCost(shape[i - 1])

DispatchLet ==
    /\ CompositeHere("let")
    /\ \E n \in 1..MaxLetDecls :
       \E shape \in LetDeclSeqs(n, node_limit - Base - 1) :
       \E concurrent \in (IF n >= 2 THEN BOOLEAN ELSE {FALSE}) :
        LET total == LetOffset(shape, n + 1)
            lhs(i) == Kids(LetOffset(shape, i) + 1, lhs_arity_of(shape[i]))
            rhs(i) == Kids(LetOffset(shape, i) + lhs_arity_of(shape[i]) + 1, shape[i].rhs)
            roles(i) == Roles(shape[i].names, "name")
                        \o (IF shape[i].cont THEN <<"var">> ELSE <<>>)
                        \o Roles(shape[i].rhs, "proc")
            let_decls == [i \in 1..n |->
                            [lhs_arity |-> lhs_arity_of(shape[i]),
                             lhs_has_cont |-> shape[i].cont,
                             rhs_arity |-> shape[i].rhs]]
            malformed(i) ==
                \/ let_decls[i].lhs_has_cont /\ let_decls[i].lhs_arity > let_decls[i].rhs_arity
                \/ let_decls[i].lhs_arity # let_decls[i].rhs_arity
            errs == Flatten([i \in 1..n |->
                        IF malformed(i)
                        THEN <<MalformedLetDecl(let_decls[i].lhs_arity,
                                                let_decls[i].rhs_arity, Within(node, i))>>
                        ELSE <<>>])
            temp_cont_stack ==
                Reverse(Flatten([i \in 1..n |->
                    <<EvalList(WithTokens(lhs(i))), EvalList(WithTokens(rhs(i)))>>]))
        IN /\ Wide \/ Long \/ (n = 1 /\ shape[1].names = 1 /\ ~shape[1].cont /\ shape[1].rhs = 1)
           /\ Long => n = 1 /\ shape[1].cont
           /\ DescendWith("let",
                       [decls |-> [i \in 1..n |-> [lhs |-> lhs(i), rhs |-> rhs(i),
                                                   cont |-> shape[i].cont]],
                        concurrent |-> concurrent,
                        proc |-> Kid(total + 1)],
                       Flatten([i \in 1..n |-> roles(i)]) \o <<"proc">>,
                       <<[k |-> "ConsumeLet", span |-> node, concurrent |-> concurrent,
                          let_decls |-> let_decls]>>
                       \o temp_cont_stack,
                       Kid(total + 1),
                       errs)
           /\ UNCHANGED sorted

----------------------------------------------------------------------------
(* kind "input": for-comprehensions *)

\* Bound on the number of binds of one for-comprehension.
MaxBinds == 2

\* one bind: its kind, the kind of its source node, whether it has a names
\* node, the number of names, whether the names end in a remainder variable,
\* and the number of inputs of a send-receive source
BindShapes ==
    { b \in [kind : {"linear_bind", "repeated_bind", "peek_bind"},
             source : {"simple_source", "receive_send_source", "send_receive_source", "name"},
             has_names : BOOLEAN, names : 0..MaxArity, cont : BOOLEAN,
             inputs : 0..MaxArity] :
        /\ (b.kind = "linear_bind") = (b.source # "name")
        /\ b.source # "send_receive_source" => b.inputs = 0
        /\ b.has_names => b.names >= 1
        /\ ~b.has_names => b.names = 0 /\ ~b.cont }

\* named children of the names node
NameCount(b) == b.names + (IF b.cont THEN 1 ELSE 0)
\* nodes of a bind: names, remainder, channel, inputs
BindCost(b) == NameCount(b) + 1 + b.inputs

RECURSIVE BindSeqs(_, _)
BindSeqs(n, room) ==
    IF n = 0 THEN {<<>>}
    ELSE UNION { { <<b>> \o rest : rest \in BindSeqs(n - 1, room - BindCost(b)) } :
                 b \in { c \in BindShapes : BindCost(c) + (n - 1) <= room } }

\* the ways of grouping a sequence of binds into receipts
RECURSIVE ReceiptSplits(_)
ReceiptSplits(bs) ==
    IF bs = <<>> THEN {<<>>}
    ELSE UNION { { <<Take(bs, g)>> \o rest : rest \in ReceiptSplits(Drop(bs, g)) } :
                 g \in 1..Len(bs) }

\* SourceDesc::arity
SourceDesc_arity(source) ==
    IF source.tag \in {"Simple", "RS"} THEN 1 ELSE source.arity

\* BindDesc::arity
BindDesc_arity(desc) ==
    IF desc.tag = "Linear" THEN desc.name_count + SourceDesc_arity(desc.source)
    ELSE desc.name_count + 1

\* the descriptor the arm computes for one bind node
BindDescOf(b) ==
    LET name_count == IF b.has_names THEN NameCount(b) ELSE 0
        cont_present == b.has_names /\ b.cont
    IN CASE b.kind = "linear_bind" ->
                [tag |-> "Linear", name_count |-> name_count, cont_present |-> cont_present,
                 source |-> CASE b.source = "simple_source" -> [tag |-> "Simple"]
                              [] b.source = "receive_send_source" -> [tag |-> "RS"]
                              [] OTHER -> [tag |-> "SR", arity |-> b.inputs]]
         [] b.kind = "repeated_bind" ->
                [tag |-> "Repeated", name_count |-> name_count, cont_present |-> cont_present]
         [] OTHER ->
                [tag |-> "Peek", name_count |-> name_count, cont_present |-> cont_present]

RECURSIVE BindOffset(_, _)
BindOffset(bs, i) ==
    IF i <= 1 THEN 0 ELSE BindOffset(bs, i - 1) + BindCost(bs[i - 1])

\* the numbered nodes of bind i of the flat bind sequence bs
BindNodes(bs, i) ==
    LET off == BindOffset(bs, i)
        b == bs[i]
    IN [names |-> Kids(off + 1, NameCount(b)),
        cont |-> b.cont,
        channel |-> Kid(off + NameCount(b) + 1),
        inputs |-> Kids(off + NameCount(b) + 2, b.inputs)]

BindRoles(b) ==
    Roles(b.names, "name") \o (IF b.cont THEN <<"var">> ELSE <<>>)
        \o <<"name">> \o Roles(b.inputs, "proc")

\* the continuations the arm pushes for one bind, in push order
BindConts(b, nodes) ==
    (IF b.kind = "linear_bind"
     THEN <<EvalDelayed(nodes.channel)>>
          \o (IF b.source = "send_receive_source"
              THEN <<EvalList(WithTokens(nodes.inputs))>> ELSE <<>>)
     ELSE <<EvalDelayed(nodes.channel)>>)
    \o (IF b.has_names THEN <<EvalList(WithTokens(nodes.names))>> ELSE <<>>)

\* index in the flat bind sequence of bind j of receipt r
RECURSIVE FlatIndex(_, _, _)
FlatIndex(receipts, r, j) ==
    IF r <= 1 THEN j ELSE Len(receipts[r - 1]) + FlatIndex(receipts, r - 1, j)

DispatchInput ==
    /\ CompositeHere("input")
    /\ \E n \in 1..MaxBinds :
       \E bs \in BindSeqs(n, node_limit - Base - 1) :
       \E receipts \in ReceiptSplits(bs) :
        LET total == BindOffset(bs, n + 1)
            proc_node == Kid(total + 1)
            rs == [r \in 1..Len(receipts) |->
                    [parts |-> [j \in 1..Len(receipts[r]) |-> BindDescOf(receipts[r][j])],
                     len |-> SumSeq([j \in 1..Len(receipts[r]) |->
                                        BindDesc_arity(BindDescOf(receipts[r][j]))])]]
            temp_cont_stack ==
                Reverse(Flatten([i \in 1..n |-> BindConts(bs[i], BindNodes(bs, i))]))
        IN /\ Wide \/ (n = 1 /\ bs[1].kind = "linear_bind" /\ bs[1].names = 1
                     /\ ~bs[1].cont /\ bs[1].source # "receive_send_source"
                     /\ bs[1].inputs = (IF bs[1].source = "simple_source" THEN 0 ELSE 1))
           /\ Descend("input",
                      [receipts |-> [r \in 1..Len(receipts) |->
                                      [j \in 1..Len(receipts[r]) |->
                                        BindNodes(bs, FlatIndex(receipts, r, j))]],
                       shapes |-> receipts,
                       proc |-> proc_node],
                      Flatten([i \in 1..n |-> BindRoles(bs[i])]) \o <<"proc">>,
                      <<[k |-> "ConsumeForComprehension", desc |-> rs, span |-> node]>>
                      \o temp_cont_stack,
                      proc_node)

----------------------------------------------------------------------------
(* apply_cont: the combination rules *)

\* outcome of a combination closure
Built(p) == [status |-> "ok", proc |-> p]
Panics(msg) == [status |-> "panic", msg |-> msg]
Hangs == [status |-> "hang"]

\* a pairing that takes the second of each two elements first
chunks_exact2_swapped(slice) ==
    [i \in 1..(Len(slice) \div 2) |-> <<slice[2 * i], slice[2 * i - 1]>>]

\* ASTBuilder::to_key_value and the pairing of alloc_match: chunks_exact(2)
chunks_exact2(slice) ==
    [i \in 1..(Len(slice) \div 2) |-> <<slice[2 * i - 1], slice[2 * i]>>]

\* BindDesc::to_bind
to_bind(desc, procs) ==
    IF Len(procs) # BindDesc_arity(desc) THEN Panics("assertion failed: procs.len() == self.arity()")
    ELSE IF procs = <<>> THEN Panics("index out of bounds")
    ELSE LET channel_name == ToAnnName(procs[1])
         IN IF ~channel_name.ok THEN Panics("expected a name")
            ELSE CASE desc.tag = "Linear" ->
                    LET source == desc.source
                        is_sr == source.tag = "SR"
                        lhs == Names_from_slice(Drop(procs, SourceDesc_arity(source)),
                                                desc.cont_present)
                        rhs == CASE source.tag = "Simple" ->
                                      [tag |-> "Simple", name |-> channel_name.v]
                                 [] source.tag = "RS" ->
                                      [tag |-> "ReceiveSend", name |-> channel_name.v]
                                 [] OTHER ->
                                      [tag |-> "SendReceive", name |-> channel_name.v,
                                       inputs |-> SubSeq(procs, 2, source.arity + 1)]
                    IN IF is_sr /\ source.arity + 1 > Len(procs)
                       THEN Panics("range end index out of range for slice")
                       ELSE IF ~lhs.ok THEN Panics("expected a list of names")
                       ELSE Built([tag |-> "Linear", lhs |-> lhs.v, rhs |-> rhs])
                 [] OTHER ->
                    LET lhs == Names_from_slice(Tail(procs), desc.cont_present)
                    IN IF ~lhs.ok THEN Panics("expected a list of names")
                       ELSE Built([tag |-> desc.tag, lhs |-> lhs.v, rhs |-> channel_name.v])

\* collect(): the items of an iterator, `first` followed by `more`; a panic
\* or a hang while producing an item is the outcome of the whole
Collected(first, more) ==
    IF first.status # "ok" THEN first
    ELSE IF more.status # "ok" THEN more
    ELSE [status |-> "ok", items |-> first.items \o more.items]

One(item) ==
    IF item.status # "ok" THEN item ELSE [status |-> "ok", items |-> <<item.proc>>]

\* BindIter: the binds of one receipt, each from its own slice of the operands
RECURSIVE BindIter(_, _)
BindIter(parts, procs) ==
    IF parts = <<>> THEN [status |-> "ok", items |-> <<>>]
    ELSE Collected(One(to_bind(Head(parts), Take(procs, BindDesc_arity(Head(parts))))),
                   BindIter(Tail(parts), Drop(procs, BindDesc_arity(Head(parts)))))

\* ReceiptIter: the receipts, each from its own slice of the operands
Receipt(binds) ==
    IF binds.status # "ok" THEN binds
    ELSE [status |-> "ok", items |-> <<[binds |-> binds.items]>>]

RECURSIVE ReceiptIter(_, _)
ReceiptIter(desc, procs) ==
    IF desc = <<>> THEN [status |-> "ok", items |-> <<>>]
    ELSE Collected(Receipt(BindIter(Head(desc).parts, Take(procs, Head(desc).len))),
                   ReceiptIter(Tail(desc), Drop(procs, Head(desc).len)))

\* a zip that insists on slices of equal length
Singles_exact(lhs, rhs) ==
    IF Len(lhs) # Len(rhs) THEN Panics("zip of slices of different lengths")
    ELSE IF \E i \in 1..Len(lhs) : ~ToAnnName(lhs[i]).ok THEN Panics("expected a name")
    ELSE [status |-> "ok",
          items |-> [i \in 1..Len(lhs) |->
                      [tag |-> "Single", lhs |-> ToAnnName(lhs[i]).v, rhs |-> rhs[i]]]]

\* the Single bindings of the zip of two slices: the shorter one decides
Singles(lhs, rhs) ==
    LET n == IF Len(lhs) < Len(rhs) THEN Len(lhs) ELSE Len(rhs)
    IN IF \E i \in 1..n : ~ToAnnName(lhs[i]).ok THEN Panics("expected a name")
       ELSE [status |-> "ok",
             items |-> [i \in 1..n |->
                         [tag |-> "Single", lhs |-> ToAnnName(lhs[i]).v, rhs |-> rhs[i]]]]

\* LetBindingIter: new() and the draining of the iterator by collect().  With
\* a tail, next() keeps returning the Multiple binding: self.tail is copied,
\* never taken, so the iterator has no end.
LetBindingIter(decl, slice) ==
    IF slice = <<>> \/ Len(slice) # decl.lhs_arity + decl.rhs_arity
    THEN Panics("assertion failed: !slice.is_empty() && slice.len() == decl.lhs_arity + decl.rhs_arity")
    ELSE LET lhs == Take(slice, decl.lhs_arity)
             rhs == Drop(slice, decl.lhs_arity)
         IN IF decl.lhs_has_cont /\ Len(rhs) > Len(lhs)
            THEN IF ~ToVar(Last(lhs)).ok THEN Panics("expected a var")
                 ELSE IF Singles(Front(lhs), rhs).status # "ok" THEN Singles(Front(lhs), rhs)
                 ELSE Hangs
            ELSE Singles(lhs, rhs)

\* LetDeclIter: the bindings of all declarations, in order
LetDeclLen(let_decl) == let_decl.lhs_arity + let_decl.rhs_arity

RECURSIVE LetDeclIter(_, _)
LetDeclIter(let_decls, procs) ==
    IF let_decls = <<>> THEN [status |-> "ok", items |-> <<>>]
    ELSE Collected(LetBindingIter(Head(let_decls), Take(procs, LetDeclLen(Head(let_decls)))),
                   LetDeclIter(Tail(let_decls), Drop(procs, LetDeclLen(Head(let_decls)))))

\* a list or a set that takes its remainder from the front, as a map does
ListOrSet_remainder_first(type, elems, has_remainder) ==
    IF has_remainder
    THEN IF elems = <<>> THEN Panics("assertion failed: !elems.is_empty()")
         ELSE IF ~ToVar(Head(elems)).ok THEN Panics("expected a var")
         ELSE Built([tag |-> "Collection", type |-> type, elements |-> Tail(elems),
                     remainder |-> SomeVar(ToVar(Head(elems)).v)])
    ELSE Built([tag |-> "Collection", type |-> type, elements |-> elems,
                remainder |-> NoVar])

\* a list or a set out of its operands
ListOrSet(type, elems, has_remainder) ==
    IF has_remainder
    THEN IF elems = <<>> THEN Panics("assertion failed: !elems.is_empty()")
         ELSE IF ~ToVar(Last(elems)).ok THEN Panics("expected a var")
         ELSE Built([tag |-> "Collection", type |-> type, elements |-> Front(elems),
                     remainder |-> SomeVar(ToVar(Last(elems)).v)])
    ELSE Built([tag |-> "Collection", type |-> type, elements |-> elems,
                remainder |-> NoVar])

\* number of operands the continuation k takes off proc_stack
Needs(k) ==
    CASE k.k \in {"ConsumeBundle", "ConsumeEval", "ConsumeNew", "ConsumeQuote",
                  "ConsumeUnaryExp"} -> 1
      [] k.k \in {"ConsumeBinaryExp", "ConsumeIfThen", "ConsumePar"} -> 2
      [] k.k = "ConsumeIfThenElse" -> 3
      [] k.k = "ConsumeContract" -> k.arity + 2
      [] k.k = "ConsumeForComprehension" ->
            SumSeq([r \in 1..Len(k.desc) |-> k.desc[r].len]) + 1
      [] k.k = "ConsumeLet" ->
            SumSeq([i \in 1..Len(k.let_decls) |->
                        k.let_decls[i].lhs_arity + k.let_decls[i].rhs_arity]) + 1
      [] k.k \in {"ConsumeList", "ConsumeSet", "ConsumeTuple"} -> k.arity
      [] k.k = "ConsumeMap" -> k.arity * 2 + (IF k.has_remainder THEN 1 ELSE 0)
      [] k.k = "ConsumeMatch" -> k.arity * 2 + 1
      [] k.k \in {"ConsumeMethod", "ConsumeSend", "ConsumeSendSync"} -> k.arity + 1
      [] k.k = "ConsumeSendSyncWithCont" -> k.arity + 2

\* the closure of continuation k applied to the top Needs(k) operands s
Combine(k, s) ==
    CASE k.k = "ConsumeBinaryExp" ->
            Built([tag |-> "BinaryExp", op |-> k.op, left |-> s[1], right |-> s[2]])
      [] k.k = "ConsumeBundle" ->
            Built([tag |-> "Bundle", bundle_type |-> k.typ, proc |-> s[1]])
      [] k.k = "ConsumeContract" ->
            LET name == ToAnnName(s[1])
                args == Names_from_slice(Drop(s, 2), k.has_cont)
            IN IF ~name.ok THEN Panics("expected a name")
               ELSE IF ~args.ok THEN Panics("expected a list of names")
               ELSE Built([tag |-> "Contract", name |-> name.v, formals |-> args.v,
                           body |-> s[2]])
      [] k.k = "ConsumeEval" ->
            IF ~ToAnnName(s[1]).ok THEN Panics("expected a name")
            ELSE Built([tag |-> "Eval", name |-> ToAnnName(s[1]).v])
      [] k.k = "ConsumeForComprehension" ->
            LET receipts == ReceiptIter(k.desc, Tail(s))
            IN IF receipts.status # "ok" THEN receipts
               ELSE Built([tag |-> "ForComprehension", receipts |-> receipts.items,
                           proc |-> s[1]])
      [] k.k = "ConsumeIfThen" ->
            Built([tag |-> "IfThenElse", condition |-> s[1], if_true |-> s[2],
                   if_false |-> NoProc])
      [] k.k = "ConsumeIfThenElse" ->
            Built([tag |-> "IfThenElse", condition |-> s[1], if_true |-> s[2],
                   if_false |-> [tag |-> "Some", v |-> s[3]]])
      [] k.k = "ConsumeLet" ->
            LET bindings == LetDeclIter(k.let_decls, Tail(s))
            IN IF bindings.status # "ok" THEN bindings
               ELSE Built([tag |-> "Let", bindings |-> bindings.items, body |-> s[1],
                           concurrent |-> k.concurrent])
      [] k.k = "ConsumeList" -> ListOrSet("List", s, k.has_remainder)
      [] k.k = "ConsumeSet" -> ListOrSet("Set", s, k.has_remainder)
      [] k.k = "ConsumeTuple" ->
            Built([tag |-> "Collection", type |-> "Tuple", elements |-> s,
                   remainder |-> NoVar])
      [] k.k = "ConsumeMap" ->
            IF k.has_remainder
            THEN IF ~ToVar(s[1]).ok THEN Panics("expected a var")
                 ELSE Built([tag |-> "Collection", type |-> "Map",
                             elements |-> chunks_exact2(Tail(s)),
                             remainder |-> SomeVar(ToVar(s[1]).v)])
            ELSE Built([tag |-> "Collection", type |-> "Map",
                        elements |-> chunks_exact2(s), remainder |-> NoVar])
      [] k.k = "ConsumeMatch" ->
            Built([tag |-> "Match", expression |-> s[1],
                   cases |-> [i \in 1..Len(chunks_exact2(Tail(s))) |->
                                [pattern |-> chunks_exact2(Tail(s))[i][1],
                                 proc |-> chunks_exact2(Tail(s))[i][2]]]])
      [] k.k = "ConsumeMethod" ->
            Built([tag |-> "Method", receiver |-> s[1], name |-> k.id, args |-> Tail(s)])
      [] k.k = "ConsumeNew" ->
            Built([tag |-> "New", decls |-> k.decls, proc |-> s[1]])
      [] k.k = "ConsumePar" ->
            Built([tag |-> "Par", left |-> s[1], right |-> s[2]])
      [] k.k = "ConsumeQuote" ->
            Built([tag |-> "Quote", proc |-> s[1].proc])
      [] k.k = "ConsumeSend" ->
            IF ~ToAnnName(s[1]).ok THEN Panics("expected a name")
            ELSE Built([tag |-> "Send", channel |-> ToAnnName(s[1]).v,
                        send_type |-> k.send_type, inputs |-> Tail(s)])
      [] k.k = "ConsumeSendSync" ->
            IF ~ToAnnName(s[1]).ok THEN Panics("expected a name")
            ELSE Built([tag |-> "SendSync", channel |-> ToAnnName(s[1]).v,
                        messages |-> Tail(s), cont |-> [tag |-> "Empty"]])
      [] k.k = "ConsumeSendSyncWithCont" ->
            IF ~ToAnnName(s[1]).ok THEN Panics("expected a name")
            ELSE Built([tag |-> "SendSync", channel |-> ToAnnName(s[1]).v,
                        messages |-> Front(Tail(s)),
                        cont |-> [tag |-> "NonEmpty", v |-> Last(s)]])
      [] k.k = "ConsumeUnaryExp" ->
            Built([tag |-> "UnaryExp", op |-> k.op, arg |-> s[1].proc])

----------------------------------------------------------------------------
(* apply_cont: the drain loop *)

Top == Last(cont_stack)

\* goto_next_sibling until a named node is under the cursor
RECURSIVE SkipUnnamed(_, _)
SkipUnnamed(children, at) ==
    IF children[at].named THEN [has_more |-> TRUE, at |-> at]
    ELSE IF at < Len(children) THEN SkipUnnamed(children, at + 1)
    ELSE [has_more |-> FALSE, at |-> at]

\* a cursor that finds a named child on its first move only
move_cursor_to_named_once(cursor) ==
    IF cursor.at = 0 /\ Len(cursor.children) > 0
    THEN SkipUnnamed(cursor.children, 1)
    ELSE [has_more |-> FALSE, at |-> cursor.at]

\* move_cursor_to_named
move_cursor_to_named(cursor) ==
    IF cursor.at = 0
    THEN IF Len(cursor.children) > 0 THEN SkipUnnamed(cursor.children, 1)
         ELSE [has_more |-> FALSE, at |-> 0]
    ELSE IF cursor.at < Len(cursor.children)
         THEN SkipUnnamed(cursor.children, cursor.at + 1)
         ELSE [has_more |-> FALSE, at |-> cursor.at]

\* K::EvalDelayed: popped, the walk resumes at its node
ApplyEvalDelayed ==
    /\ pc = "drain"
    /\ cont_stack # <<>>
    /\ Top.k = "EvalDelayed"
    /\ cont_stack' = Front(cont_stack)
    /\ node' = Top.node
    /\ pc' = "dispatch"
    /\ UNCHANGED <<cst, proc_stack, errors, result, panic, made, scope, outside_driver, sorted, first_walk>>

\* K::EvalList: the walk resumes at the next named child, or the list is popped
ApplyEvalList ==
    /\ pc = "drain"
    /\ cont_stack # <<>>
    /\ Top.k = "EvalList"
    /\ LET moved == move_cursor_to_named(Top)
       IN IF moved.has_more
          THEN /\ cont_stack' = [cont_stack EXCEPT ![Len(cont_stack)].at = moved.at]
               /\ node' = Top.children[moved.at].id
               /\ pc' = "dispatch"
          ELSE /\ cont_stack' = Front(cont_stack)
               /\ UNCHANGED <<node, pc>>
    /\ UNCHANGED <<cst, proc_stack, errors, result, panic, made, scope, outside_driver, sorted, first_walk>>

\* ProcStack::replace_top, replace_top2, replace_top3, replace_top_slice: FALSE
\* when fewer than n operands are on the stack
HasOperands(stack, n) == Len(stack) >= n

\* a Consume* continuation that stamps its result with the range of the node
\* under the cursor
ApplyConsume_at_cursor ==
    /\ pc = "drain"
    /\ cont_stack # <<>>
    /\ Top.k \notin {"EvalDelayed", "EvalList"}
    /\ cont_stack' = Front(cont_stack)
    /\ LET n == Needs(Top)
           underflow == ~HasOperands(proc_stack, n)
           built == Combine(Top, SubSeq(proc_stack, Len(proc_stack) - n + 1, Len(proc_stack)))
       IN IF underflow
          THEN /\ pc' = "panic"
               /\ panic' = "bug: process stack underflow!!!"
               /\ UNCHANGED <<proc_stack, made>>
          ELSE CASE built.status = "ok" ->
                    /\ proc_stack' = Append(Take(proc_stack, Len(proc_stack) - n),
                                            AnnProc(built.proc, node))
                    /\ made' = Append(made, AnnProc(built.proc, node))
                    /\ UNCHANGED <<pc, panic>>
                 [] built.status = "panic" ->
                    /\ pc' = "panic"
                    /\ panic' = built.msg
                    /\ UNCHANGED <<proc_stack, made>>
                 [] OTHER ->
                    /\ pc' = "hang"
                    /\ UNCHANGED <<proc_stack, made, panic>>
    /\ UNCHANGED <<node, cst, errors, result, scope, outside_driver, sorted, first_walk>>

\* a Consume* continuation: popped and applied to the top operands
ApplyConsume ==
    /\ pc = "drain"
    /\ cont_stack # <<>>
    /\ Top.k \notin {"EvalDelayed", "EvalList"}
    /\ cont_stack' = Front(cont_stack)
    /\ LET n == Needs(Top)
           underflow == ~HasOperands(proc_stack, n)
           built == Combine(Top, SubSeq(proc_stack, Len(proc_stack) - n + 1, Len(proc_stack)))
       IN IF underflow
          THEN /\ pc' = "panic"
               /\ panic' = "bug: process stack underflow!!!"
               /\ UNCHANGED <<proc_stack, made>>
          ELSE CASE built.status = "ok" ->
                    /\ proc_stack' = Append(Take(proc_stack, Len(proc_stack) - n),
                                            AnnProc(built.proc, Top.span))
                    /\ made' = Append(made, AnnProc(built.proc, Top.span))
                    /\ UNCHANGED <<pc, panic>>
                 [] built.status = "panic" ->
                    /\ pc' = "panic"
                    /\ panic' = built.msg
                    /\ UNCHANGED <<proc_stack, made>>
                 [] OTHER ->
                    /\ pc' = "hang"
                    /\ UNCHANGED <<proc_stack, made, panic>>
    /\ UNCHANGED <<node, cst, errors, result, scope, outside_driver, sorted, first_walk>>

----------------------------------------------------------------------------
(* Step::Done: the error collector and the return value *)

\* ParsingError::from_error_node
from_error_node(n) ==
    IF cst[n].info.content = "char" THEN [tag |-> "Unexpected"]
    ELSE [tag |-> "SyntaxError", sexp |-> cst[n].info.content]

\* a collector that reports every ERROR node, whatever its parent
RECURSIVE query_errors_with_nested(_)
query_errors_with_nested(n) ==
    IF n > Len(cst) THEN <<>>
    ELSE (CASE cst[n].kind = "MISSING" ->
                  <<[error |-> [tag |-> "MissingToken", token |-> cst[n].info.content],
                     span |-> n]>>
            [] cst[n].kind = "ERROR" -> <<[error |-> from_error_node(n), span |-> n]>>
            [] OTHER -> <<>>)
         \o query_errors_with_nested(n + 1)

\* query_errors of parsing.rs: every MISSING node, and every ERROR node whose
\* parent is not an ERROR node, in the order of the nodes
RECURSIVE query_errors(_)
query_errors(n) ==
    IF n > Len(cst) THEN <<>>
    ELSE (CASE cst[n].kind = "MISSING" ->
                  <<[error |-> [tag |-> "MissingToken", token |-> cst[n].info.content],
                     span |-> n]>>
            [] cst[n].kind = "ERROR" ->
                  IF cst[n].parent # 0 /\ cst[cst[n].parent].kind = "ERROR" THEN <<>>
                  ELSE <<[error |-> from_error_node(n), span |-> n]>>
            [] OTHER -> <<>>)
         \o query_errors(n + 1)

\* a collector that overwrites the recorded errors
discover_errors_replacing(into) ==
    IF has_error THEN query_errors(1) ELSE into

\* Step::Done: the errors of the CST are appended to the recorded ones
discover_errors(into) ==
    IF has_error THEN into \o query_errors(1) ELSE into

\* a conversion that accepts the empty vector
NEVec_from_vec_unchecked(v) == [tag |-> "Some", v |-> v]

\* NEVec::try_from_vec: None for an empty vector
NEVec_try_from_vec(v) ==
    IF v = <<>> THEN [tag |-> "None"] ELSE [tag |-> "Some", v |-> v]

\* ProcStack::to_proc asserts that exactly one operand is left
ReturnDone ==
    /\ pc = "drain"
    /\ cont_stack = <<>>
    /\ LET all == discover_errors(errors)
           some_errors == NEVec_try_from_vec(all)
       IN /\ errors' = all
          /\ IF some_errors.tag = "Some"
             THEN /\ result' = [tag |-> "ParsingFailure",
                                partial_tree |-> to_proc_partial(proc_stack),
                                errors |-> some_errors.v]
                  /\ pc' = "done"
                  /\ UNCHANGED panic
             ELSE IF Len(proc_stack) = 1
             THEN /\ result' = [tag |-> "Good", v |-> Last(proc_stack)]
                  /\ pc' = "done"
                  /\ UNCHANGED panic
             ELSE /\ pc' = "panic"
                  /\ panic' = "bug: parsing finished prematurely"
                  /\ UNCHANGED result
    /\ UNCHANGED <<node, cst, proc_stack, cont_stack, made, scope, outside_driver, sorted, first_walk>>

----------------------------------------------------------------------------

Next ==
    \/ DispatchBad
    \/ DispatchBlock
    \/ DispatchWildcard
    \/ DispatchVar
    \/ DispatchNil
    \/ DispatchUnit
    \/ DispatchSimpleType
    \/ DispatchBoolLiteral
    \/ DispatchLongLiteral
    \/ DispatchStringLiteral
    \/ DispatchUriLiteral
    \/ DispatchPar
    \/ DispatchEval
    \/ DispatchQuote
    \/ DispatchMethod
    \/ DispatchBinaryExp
    \/ DispatchUnaryExp
    \/ DispatchCollection
    \/ DispatchSend
    \/ DispatchNew
    \/ DispatchContract
    \/ DispatchIfElse
    \/ DispatchInput
    \/ DispatchMatch
    \/ DispatchLet
    \/ DispatchBundle
    \/ DispatchSendSync
    \/ DispatchVarRef
    \/ ApplyEvalDelayed
    \/ ApplyEvalList
    \/ ApplyConsume
    \/ ReturnDone

Spec == Init /\ [][Next]_vars

\* node_to_ast is called again with the same start_node and source: the
\* outcome of the first call is kept aside and the walk starts afresh
Again ==
    /\ pc = "done"
    /\ first_walk.tag = "none"
    /\ first_walk' = [tag |-> "walked", result |-> result]
    /\ pc' = "dispatch"
    /\ node' = 1
    /\ proc_stack' = <<>>
    /\ cont_stack' = <<>>
    /\ errors' = <<>>
    /\ result' = [tag |-> "none"]
    /\ made' = <<>>
    /\ UNCHANGED <<cst, panic, scope, outside_driver, sorted>>

SecondWalk == first_walk.tag # "none"

\* the second walk sees the tree the first walk saw
NextTwice ==
    \/ Next /\ (SecondWalk => cst' = cst)
    \/ Again

SpecTwice == Init /\ [][NextTwice]_vars

----------------------------------------------------------------------------
(* Properties of the driver *)

IsConsume(k) == k.k \notin {"EvalDelayed", "EvalList"}

\* the construct a node is a child of: its parent, looking through blocks,
\* which hand their only child to the construct around them
RECURSIVE Owner(_)
Owner(n) ==
    LET p == cst[n].parent
    IN IF p = 0 THEN 0
       ELSE IF cst[p].kind = "block" THEN Owner(p) ELSE p

\* the operands on proc_stack that the children of construct n left there
OperandsOf(n) == { i \in 1..Len(proc_stack) : Owner(proc_stack[i].span) = n }

\* a Consume* continuation is about to be applied
AtConsume == pc = "drain" /\ cont_stack # <<>> /\ IsConsume(Top)

\* apply_cont is about to return Step::Done
AtDone == pc = "drain" /\ cont_stack = <<>>

\* C1: whenever a Consume* continuation is applied, the number of operands it
\* pops equals the number of operands the children of its construct pushed,
\* so that the construct nets exactly one operand.
C1_BalancedConsumption ==
    AtConsume => Needs(Top) = Cardinality(OperandsOf(Top.span))

\* C2: whenever apply_cont returns Step::Done, proc_stack holds exactly one
\* AnnProc, with or without recorded errors.
C2_OneOperandAtDone ==
    AtDone => Len(proc_stack) = 1

UnderflowPanic == "bug: process stack underflow!!!"
NarrowingPanics == {"expected a name", "expected a var", "expected a list of names"}

\* C3: no Consume* continuation finds fewer operands on proc_stack than it
\* needs, whatever subtrees are error or missing-token nodes: the stack
\* underflow panic of apply_cont is never raised.
C3_NoUnderflow ==
    /\ panic # UnderflowPanic
    /\ AtConsume => HasOperands(proc_stack, Needs(Top))

\* a continuation that needs several operands is applied to a stack that
\* holds exactly that many, one of them the sentinel of an error node
C3_Witness ==
    /\ AtConsume
    /\ has_error
    /\ Needs(Top) >= 2
    /\ Len(proc_stack) = Needs(Top)
    /\ \E i \in 1..Len(proc_stack) : proc_stack[i].proc = BAD

\* an error or missing-token node stands where a name or a variable is required
BadAtNamePosition ==
    \E i \in 1..Len(cst) : IsErrorKind(cst[i].kind) /\ cst[i].role \in {"name", "var"}

\* C4: with an error or missing-token node where a name or a variable is
\* required, no Consume* step aborts while narrowing the Bad sentinel: the
\* driver does not panic and returns a ParsingFailure.
C4_BadNameStillFails ==
    BadAtNamePosition =>
        /\ pc # "panic"
        /\ pc = "done" => result.tag = "ParsingFailure"

\* C5: on an error-free CST no narrowing helper returns Err, so none of the
\* assertions "expected a name", "expected a var", "expected a list of
\* names" fires.
C5_NoNarrowingErr ==
    ~has_error => panic \notin NarrowingPanics

\* the AnnProc that the evaluation of node n produced; a block stands for its
\* only child
RECURSIVE ResultOf(_)
ResultOf(n) ==
    IF cst[n].kind = "block"
    THEN ResultOf(CHOOSE j \in 1..Len(cst) : cst[j].parent = n)
    ELSE made[CHOOSE k \in 1..Len(made) : made[k].span = n]

ResultsOf(ns) == [i \in 1..Len(ns) |-> ResultOf(ns[i])]

\* the channel of a built Bind
ChannelOf(bind) == IF bind.tag = "Linear" THEN bind.rhs.name ELSE bind.rhs

\* a built Bind is made of the results of the nodes `nd` of its own bind node
BindFromOwnNodes(bind, nd) ==
    /\ ToAnnName(ResultOf(nd.channel)) = Ok(ChannelOf(bind))
    /\ (bind.tag = "Linear" /\ bind.rhs.tag = "SendReceive") =>
            bind.rhs.inputs = ResultsOf(nd.inputs)
    /\ Names_from_slice(ResultsOf(nd.names), nd.cont) = Ok(bind.lhs)

\* a built ForComprehension at node n is made of the results of its own nodes
ForFromOwnNodes(for, n) ==
    LET info == cst[n].info
    IN /\ for.proc = ResultOf(info.proc)
       /\ Len(for.receipts) = Len(info.receipts)
       /\ \A r \in 1..Len(info.receipts) :
            /\ Len(for.receipts[r].binds) = Len(info.receipts[r])
            /\ \A j \in 1..Len(info.receipts[r]) :
                 BindFromOwnNodes(for.receipts[r].binds[j], info.receipts[r][j])

\* C6: every Bind of every ForComprehension built has as channel the result
\* of its own channel node, as SendReceive inputs the results of its own input
\* nodes in source order and as names the results of its own pattern names in
\* source order, and the body of the ForComprehension is the result of the
\* body node.
C6_BindsFromOwnNodes ==
    \A k \in 1..Len(made) :
        made[k].proc.tag = "ForComprehension" =>
            ForFromOwnNodes(made[k].proc, made[k].span)

Returned == pc = "done"
Failed == Returned /\ result.tag = "ParsingFailure"

\* C7: a ParsingFailure is returned if and only if at least one error was
\* recorded, by the walk or by the error collector: a returned ParsingFailure
\* has a non-empty error list and a Good result means that no error was
\* recorded.
C7_FailureIffErrors ==
    Returned =>
        /\ result.tag \in {"Good", "ParsingFailure"}
        /\ (result.tag = "ParsingFailure") <=> (errors # <<>>)
        /\ result.tag = "ParsingFailure" => result.errors # <<>>
        /\ result.tag = "Good" => errors = <<>> /\ ~has_error

\* a failure is returned for a CST without any error node
C7_Witness ==
    Failed /\ ~has_error /\ Len(result.errors) >= 1

IsPrefix(a, b) == Len(a) <= Len(b) /\ SubSeq(b, 1, Len(a)) = a
Contains(errs, e) == \E i \in 1..Len(errs) : errs[i] = e

\* the declarations of the `let` at node n that the arm reports
MalformedDeclsOf(n) ==
    { i \in 1..Len(cst[n].info.decls) :
        Len(cst[n].info.decls[i].lhs) # Len(cst[n].info.decls[i].rhs) }

HasDuplicate(names) == \E i, j \in 1..Len(names) : i # j /\ names[i] = names[j]

\* every semantic error of the nodes classified so far is in errs
SemanticErrorsIn(errs) ==
    \A n \in 1..Len(cst) :
        /\ (cst[n].kind = "long_literal" /\ ~ParseI64(cst[n].info.text).ok) =>
                Contains(errs, NumberOutOfRange(n))
        /\ cst[n].kind = "let" =>
                \A i \in MalformedDeclsOf(n) :
                    Contains(errs, MalformedLetDecl(Len(cst[n].info.decls[i].lhs),
                                                    Len(cst[n].info.decls[i].rhs),
                                                    Within(n, i)))
        /\ (cst[n].kind = "new" /\ HasDuplicate(cst[n].info.names)) =>
                \E i \in 1..Len(errs) : /\ errs[i].error.tag = "DuplicateNameDecl"
                                         /\ errs[i].span = Within(n, 0)

EveryNodeClassified == \A i \in 1..Len(cst) : cst[i].kind # "?"

FailureHoldsEveryError ==
    Failed => /\ result.errors = errors
              /\ SemanticErrorsIn(result.errors)
              /\ EveryNodeClassified

\* C8: the error list only grows during a parse, every out-of-range literal,
\* malformed let declaration and duplicate name of a classified node is in
\* it, and a returned ParsingFailure carries all of them, every node of the
\* CST having been classified.
C8_ErrorsKeptAndReturned ==
    [][ /\ IsPrefix(errors, errors')
        /\ SemanticErrorsIn(errors)'
        /\ FailureHoldsEveryError' ]_vars

\* a failure that carries a duplicate-name error and the out-of-range error
\* of a literal examined after it
C8_Witness ==
    /\ Failed
    /\ \E i, j \in 1..Len(result.errors) :
         /\ i < j
         /\ result.errors[i].error.tag = "DuplicateNameDecl"
         /\ result.errors[j].error.tag = "NumberOutOfRange"

\* C9: every returned ParsingFailure has partial_tree = Some(t), t being the
\* AnnProc on top of proc_stack when the continuation stack became empty.
C9_PartialTreeIsTop ==
    Failed =>
        /\ proc_stack # <<>>
        /\ result.partial_tree = [tag |-> "Some", v |-> Last(proc_stack)]

\* a failure whose partial tree is a Par around the sentinel of an error node
C9_Witness ==
    /\ Failed
    /\ result.partial_tree.tag = "Some"
    /\ result.partial_tree.v.proc.tag = "Par"
    /\ result.partial_tree.v.proc.left.proc = BAD

HasResult(n) == \E k \in 1..Len(made) : made[k].span = n

\* no node inside an error node is the cursor or has a result
ErrorNodesNotEntered ==
    /\ cst[node].role # "in_error"
    /\ \A k \in 1..Len(made) : cst[made[k].span].role # "in_error"

\* every node outside the error nodes has been evaluated
AllSiblingsEvaluated ==
    \A i \in 1..Len(cst) :
        cst[i].role # "in_error" => cst[i].kind = "block" \/ HasResult(i)

\* C10: when the cursor is an error or missing-token node, exactly one Bad
\* AnnProc with the range of the node is pushed, no continuation is pushed
\* and the drain loop is entered; the children of the node are never visited,
\* and the other nodes of the tree are all evaluated by the time the driver
\* returns.
C10_BadNodePushedOnce ==
    [][ /\ (pc = "dispatch" /\ IsErrorKind(cst'[node].kind)) =>
              /\ proc_stack' = Append(proc_stack, AnnProc(BAD, node))
              /\ cont_stack' = cont_stack
              /\ pc' = "drain"
        /\ ErrorNodesNotEntered'
        /\ Returned' => AllSiblingsEvaluated' ]_vars

\* the driver has returned, and a sibling of an error node that has a child
\* was evaluated after the error node
C10_Witness ==
    /\ Returned
    /\ \E i, j, c \in 1..Len(cst) :
         /\ cst[i].kind = "ERROR"
         /\ cst[c].parent = i
         /\ j # i /\ cst[j].parent = cst[i].parent
         /\ \E k1, k2 \in 1..Len(made) :
              k1 < k2 /\ made[k1].span = i /\ made[k2].span = j

----------------------------------------------------------------------------
(* Literals, declarations, collections *)

\* the magnitude of the number a long_literal text denotes
Magnitude(text) == StripZeros(text.digits)

\* the number a long_literal text denotes lies in -2^63 .. 2^63 - 1
InI64Range(text) ==
    LET limit == IF text.neg THEN I64MinDigits ELSE I64MaxDigits
    IN \/ Len(Magnitude(text)) < Len(limit)
       \/ Len(Magnitude(text)) = Len(limit) /\ DigitsLeq(Magnitude(text), limit)

\* the number a long_literal text denotes
ValueOf(text) ==
    [neg |-> text.neg /\ Magnitude(text) # <<0>>, digits |-> Magnitude(text)]

\* every Par built has the results of its two children as its branches
ParsKeepBothBranches ==
    \A k \in 1..Len(made) :
        made[k].proc.tag = "Par" =>
            /\ made[k].proc.left = ResultOf(cst[made[k].span].info.left)
            /\ made[k].proc.right = ResultOf(cst[made[k].span].info.right)

\* C11: a long_literal whose text is outside the signed 64-bit range records
\* exactly one NumberOutOfRange error with the span of the literal and pushes
\* Bad in its place; a literal inside the range records no error and pushes
\* the LongLiteral of its value; a Par around either has the results of both
\* of its children as branches.
C11_OutOfRangeLiteral ==
    [][ /\ (pc = "dispatch" /\ cst'[node].kind = "long_literal") =>
              IF InI64Range(cst'[node].info.text)
              THEN /\ errors' = errors
                   /\ proc_stack' =
                        Append(proc_stack,
                               AnnProc([tag |-> "LongLiteral",
                                        value |-> ValueOf(cst'[node].info.text)], node))
              ELSE /\ errors' = Append(errors, [error |-> [tag |-> "NumberOutOfRange"],
                                                span |-> node])
                   /\ proc_stack' = Append(proc_stack, AnnProc(BAD, node))
        /\ ParsKeepBothBranches' ]_vars

\* a failure whose only error is the NumberOutOfRange of the left branch of a
\* Par, the right branch of the partial tree being a translated Send
C11_Witness ==
    /\ Failed
    /\ result.partial_tree.tag = "Some"
    /\ result.partial_tree.v.proc.tag = "Par"
    /\ result.partial_tree.v.proc.left.proc = BAD
    /\ result.partial_tree.v.proc.right.proc.tag = "Send"
    /\ result.errors = <<[error |-> [tag |-> "NumberOutOfRange"],
                          span |-> result.partial_tree.v.proc.left.span]>>

\* positions of the declarations of identifier `name` in the `new` at node n
OccurrencesOf(n, name) ==
    { Within(n, i) : i \in { j \in 1..Len(cst[n].info.names) : cst[n].info.names[j] = name } }

\* the DuplicateNameDecl errors recorded for the `new` at node n
DuplicateErrorsOf(n) ==
    { i \in 1..Len(errors) : /\ errors[i].error.tag = "DuplicateNameDecl"
                              /\ errors[i].span = Within(n, 0) }

\* `first` is the textually first declaration of some identifier and `second`
\* a later declaration of the same identifier
FirstAndLater(n, first, second) ==
    \E name \in DeclNames :
        /\ first \in OccurrencesOf(n, name)
        /\ second \in OccurrencesOf(n, name)
        /\ \A pos \in OccurrencesOf(n, name) : first <= pos
        /\ first < second

SourceDecls(info, n) ==
    [i \in 1..Len(info.names) |->
        [id |-> [name |-> info.names[i], pos |-> Within(n, i)],
         uri |-> IF i = 1 THEN info.uri ELSE "None"]]

SourceDeclsOf(n) == SourceDecls(cst[n].info, n)

\* b holds the elements of a, each as often as a does
IsPermutationOf(a, b) ==
    /\ Len(a) = Len(b)
    /\ \E f \in [1..Len(a) -> 1..Len(a)] :
         /\ \A i, j \in 1..Len(a) : i # j => f[i] # f[j]
         /\ \A i \in 1..Len(a) : b[f[i]] = a[i]

\* every New built holds all the declarations of its node and the result of
\* the body node
NewsHoldAllDecls ==
    \A k \in 1..Len(made) :
        made[k].proc.tag = "New" =>
            /\ IsPermutationOf(SourceDeclsOf(made[k].span), made[k].proc.decls)
            /\ made[k].proc.proc = ResultOf(cst[made[k].span].info.proc)

\* C13: a duplicate name in a `new` does not stop construction: the arm pushes
\* ConsumeNew and moves on to the body whether or not it records an error, and
\* the New built holds every declaration of the source, duplicates included,
\* and the translated body.
C13_DuplicateDoesNotStopNew ==
    [][ /\ (pc = "dispatch" /\ cst'[node].kind = "new") =>
              /\ Len(cont_stack') = Len(cont_stack) + 1
              /\ Front(cont_stack') = cont_stack
              /\ Last(cont_stack').k = "ConsumeNew"
              /\ Last(cont_stack').span = node
              /\ IsPermutationOf(SourceDecls(cst'[node].info, node), Last(cont_stack').decls)
              /\ node' = cst'[node].info.proc
              /\ pc' = "dispatch"
        /\ NewsHoldAllDecls'
        /\ Returned' => \A n \in 1..Len(cst') : cst'[n].kind = "new" => HasResult(n)' ]_vars

\* a returned New with three declarations, one identifier declared twice, and
\* the DuplicateNameDecl error beside it
C13_Witness ==
    /\ Failed
    /\ result.partial_tree.tag = "Some"
    /\ result.partial_tree.v.proc.tag = "New"
    /\ Len(result.partial_tree.v.proc.decls) = 3
    /\ HasDuplicate(cst[1].info.names)
    /\ result.partial_tree.v.proc.proc.proc = NIL
    /\ \E i \in 1..Len(result.errors) : result.errors[i].error.tag = "DuplicateNameDecl"

\* the let nodes classified so far and the declarations of each
LetDeclsAt == { <<n, i>> \in (1..Len(cst)) \X (1..MaxLetDecls) :
                    cst[n].kind = "let" /\ i <= Len(cst[n].info.decls) }

LhsArity(n, i) == Len(cst[n].info.decls[i].lhs)
RhsArity(n, i) == Len(cst[n].info.decls[i].rhs)
HasRemainder(n, i) == cst[n].info.decls[i].cont

\* a MalformedLetDecl error is recorded for declaration i of the let at node n
MalformedRecorded(n, i) ==
    \E k \in 1..Len(errors) : /\ errors[k].error.tag = "MalformedLetDecl"
                               /\ errors[k].span = Within(n, i)

\* C14: for each let declaration a MalformedLetDecl error is recorded if and
\* only if the left-hand arity differs from the right-hand arity and it is not
\* the case that the left-hand pattern has a remainder variable with
\* left-hand arity <= right-hand arity.
C14_MalformedIffArityRule ==
    \A d \in LetDeclsAt :
        MalformedRecorded(d[1], d[2]) <=>
            /\ LhsArity(d[1], d[2]) # RhsArity(d[1], d[2])
            /\ ~(HasRemainder(d[1], d[2]) /\ LhsArity(d[1], d[2]) <= RhsArity(d[1], d[2]))

Min(a, b) == IF a < b THEN a ELSE b

\* the name that the result r of a name node stands for
NameOfResult(r) ==
    IF r.proc.tag = "Quote" THEN [tag |-> "Quote", proc |-> r.proc.proc]
    ELSE [tag |-> "ProcVar", var |-> r.proc.var]

\* the Single bindings of declaration i of the let at node n: the leading
\* names paired with the leading values, as many as both sides have
ZippedBindings(n, i) ==
    LET decl == cst[n].info.decls[i]
    IN [j \in 1..Min(Len(decl.lhs), Len(decl.rhs)) |->
            [tag |-> "Single",
             lhs |-> [name |-> NameOfResult(ResultOf(decl.lhs[j])),
                      span |-> ResultOf(decl.lhs[j]).span],
             rhs |-> ResultOf(decl.rhs[j])]]

\* a let whose declarations have no remainder variable
PlainLet(n) ==
    /\ cst[n].kind = "let"
    /\ \A i \in 1..Len(cst[n].info.decls) : ~HasRemainder(n, i)

\* some declaration of the let at node n has different arities
Mismatched(n) ==
    \E i \in 1..Len(cst[n].info.decls) : LhsArity(n, i) # RhsArity(n, i)

\* C15: a let declaration with different arities and no remainder records
\* MalformedLetDecl with both arities; the Let node is still built, its
\* bindings pairing the first min(lhs, rhs) names with the first min(lhs, rhs)
\* values of each declaration, and for an otherwise well-formed tree the
\* driver does not abort but returns the Let as the partial tree of the
\* failure.
C15_MismatchedLetStillBuilt ==
    /\ \A d \in LetDeclsAt :
         (~HasRemainder(d[1], d[2]) /\ LhsArity(d[1], d[2]) # RhsArity(d[1], d[2])) =>
            Contains(errors,
                     [error |-> [tag |-> "MalformedLetDecl",
                                 lhs_arity |-> LhsArity(d[1], d[2]),
                                 rhs_arity |-> RhsArity(d[1], d[2])],
                      span |-> Within(d[1], d[2])])
    /\ \A k \in 1..Len(made) :
         (made[k].proc.tag = "Let" /\ PlainLet(made[k].span)) =>
            /\ made[k].proc.bindings =
                 Flatten([i \in 1..Len(cst[made[k].span].info.decls) |->
                            ZippedBindings(made[k].span, i)])
            /\ made[k].proc.body = ResultOf(cst[made[k].span].info.proc)
    /\ (PlainLet(1) /\ Mismatched(1) /\ ~has_error) =>
         /\ pc \notin {"panic", "hang"}
         /\ Returned =>
              /\ result.tag = "ParsingFailure"
              /\ result.partial_tree.tag = "Some"
              /\ result.partial_tree.v.proc.tag = "Let"
              /\ result.partial_tree.v.span = 1

\* the failure returned for `let x, y <- 1 in { Nil }`: one binding, one error
C15_Witness ==
    /\ Failed
    /\ PlainLet(1)
    /\ Len(cst[1].info.decls) = 1
    /\ LhsArity(1, 1) = 2 /\ RhsArity(1, 1) = 1
    /\ result.partial_tree.v.proc.tag = "Let"
    /\ Len(result.partial_tree.v.proc.bindings) = 1
    /\ result.errors = <<[error |-> [tag |-> "MalformedLetDecl", lhs_arity |-> 2,
                                     rhs_arity |-> 1],
                          span |-> Within(1, 1)]>>

\* the nodes first, first + 1, ... of n consecutive children
Span(first, n) == [i \in 1..n |-> first + i - 1]

\* the variable that the remainder child at node r stands for
RemainderAt(r) == [tag |-> "Some", var |-> ResultOf(r).proc.var]

\* C16: a list or set with n named children and no remainder yields a
\* collection with the results of the n children in source order and
\* remainder = None; with a remainder it yields the results of the leading
\* children in source order and remainder = Some(v), v the variable of the
\* remainder child; the combination of an error-free collection of leaves
\* does not abort.
C16_ListAndSetElements ==
    /\ \A k \in 1..Len(made) :
         (made[k].proc.tag = "Collection" /\ made[k].proc.type \in {"List", "Set"}) =>
            LET info == cst[made[k].span].info
            IN /\ info.type = (IF made[k].proc.type = "List" THEN "list" ELSE "set")
               /\ made[k].proc.elements = ResultsOf(Span(info.first, info.n))
               /\ made[k].proc.remainder =
                    IF info.has_remainder THEN RemainderAt(info.first + info.n)
                    ELSE [tag |-> "None"]
    /\ (Wide /\ cst[1].kind = "collection" /\ ~has_error) => pc # "panic"

\* a list of two elements that differ, and a remainder
C16_Witness ==
    /\ Returned
    /\ result.tag = "Good"
    /\ result.v.proc.tag = "Collection"
    /\ result.v.proc.type = "List"
    /\ Len(result.v.proc.elements) = 2
    /\ result.v.proc.elements[1].proc # result.v.proc.elements[2].proc
    /\ result.v.proc.remainder.tag = "Some"

\* key and value node of pair i of a map whose first child is `first`
KeyAt(first, i) == first + 2 * (i - 1)
ValueAt(first, i) == first + 2 * (i - 1) + 1

\* C17: a map with k key/value pairs consumes exactly 2k operands, 2k + 1 with
\* a remainder, all of them results of its own children, and yields
\* elements[i] = (result of the key of pair i, result of the value of pair i)
\* in source order, with the variable of the remainder child as remainder
\* when there is one and None otherwise.
C17_MapPairs ==
    /\ (AtConsume /\ Top.k = "ConsumeMap") =>
         LET info == cst[Top.span].info
         IN /\ Needs(Top) = 2 * info.n + (IF info.has_remainder THEN 1 ELSE 0)
            /\ Cardinality(OperandsOf(Top.span)) = Needs(Top)
    /\ \A k \in 1..Len(made) :
         (made[k].proc.tag = "Collection" /\ made[k].proc.type = "Map") =>
            LET info == cst[made[k].span].info
            IN /\ info.type = "map"
               /\ made[k].proc.elements =
                    [i \in 1..info.n |-> <<ResultOf(KeyAt(info.first, i)),
                                           ResultOf(ValueAt(info.first, i))>>]
               /\ made[k].proc.remainder =
                    IF info.has_remainder THEN RemainderAt(info.first + 2 * info.n)
                    ELSE [tag |-> "None"]

\* a map of two pairs, the key of the first differing from its value and from
\* the key of the second, and a remainder
C17_Witness ==
    /\ Returned
    /\ result.tag = "Good"
    /\ result.v.proc.tag = "Collection"
    /\ result.v.proc.type = "Map"
    /\ Len(result.v.proc.elements) = 2
    /\ result.v.proc.elements[1][1].proc # result.v.proc.elements[1][2].proc
    /\ result.v.proc.elements[1][1].proc # result.v.proc.elements[2][1].proc
    /\ result.v.proc.remainder.tag = "Some"

\* the error nodes whose content is a bare variable token
BareVarErrorNodes ==
    { n \in 1..Len(cst) : cst[n].kind = "ERROR" /\ cst[n].info.content = "var" }

\* the variable node inside the error node n
VarInside(n) == CHOOSE c \in 1..Len(cst) : cst[c].parent = n

\* C18: when the CST contains an error node whose content is a bare variable
\* token, the errors of the returned ParsingFailure contain an UnexpectedVar
\* error with the span of that variable and no generic SyntaxError for the
\* error node.
C18_UnexpectedVarReported ==
    Failed =>
        \A n \in BareVarErrorNodes :
            /\ \E i \in 1..Len(result.errors) :
                 /\ result.errors[i].error.tag = "UnexpectedVar"
                 /\ result.errors[i].span = VarInside(n)
            /\ \A i \in 1..Len(result.errors) :
                 ~(result.errors[i].error.tag = "SyntaxError" /\ result.errors[i].span = n)

\* no node has been evaluated twice
EachNodeEvaluatedOnce ==
    \A k1, k2 \in 1..Len(made) : made[k1].span = made[k2].span => k1 = k2

\* C20: the walk terminates: no CST node is evaluated twice and every
\* Consume* step completes, the iterators it drains being finite, the
\* let-binding iterator of a declaration with a remainder included.
C20_EveryConsumeCompletes ==
    /\ EachNodeEvaluatedOnce
    /\ pc # "hang"

\* the errors of a returned value, as a set
ErrorSetOf(r) ==
    IF r.tag = "ParsingFailure" THEN { r.errors[i] : i \in 1..Len(r.errors) } ELSE {}

----------------------------------------------------------------------------
(* Names::from_slice called on its own (ast.rs) *)

\* Bound on the length of the slice handed to Names::from_slice.
MaxSlice == 3

driver_vars == <<pc, node, cst, proc_stack, cont_stack, errors, result, panic, made, scope,
                 sorted, first_walk>>

\* no walk of the driver is under way
DriverAtRest ==
    /\ pc = "dispatch"
    /\ node = 1
    /\ cst = <<Unrevealed("proc", 0)>>
    /\ proc_stack = <<>>
    /\ cont_stack = <<>>
    /\ errors = <<>>
    /\ result = [tag |-> "none"]
    /\ panic = ""
    /\ made = <<>>
    /\ scope = "wide"
    /\ sorted = <<>>
    /\ first_walk = [tag |-> "none"]

\* the processes an element of the slice may be: a variable, a wildcard, a
\* quote, and a process that is no name
SliceProcs ==
    { alloc_var(Id("x", 0)), WILD, [tag |-> "Quote", proc |-> NIL], NIL }

\* the slices of AnnProc handed to Names::from_slice; the span of an element
\* is its place in the slice
Slices ==
    UNION { { [i \in 1..n |-> AnnProc(ps[i], i)] : ps \in [1..n -> SliceProcs] } :
            n \in 0..MaxSlice }

\* the variables Names::from_slice leaves alone
beside_names == <<driver_vars, shell_vars, helper_vars, provider_vars, iter_vars>>

InitNames ==
    /\ DriverAtRest
    /\ IterAtRest
    /\ ShellAtRest
    /\ HelperAtRest
    /\ ProviderAtRest
    /\ given_slice \in Slices
    /\ given_flag \in BOOLEAN
    /\ built_names = NotCalled

\* one call Names::from_slice(slice, with_remainder)
FromSlice ==
    /\ built_names = NotCalled
    /\ built_names' = Names_from_slice(given_slice, given_flag)
    /\ UNCHANGED <<given_slice, given_flag, beside_names>>

SpecNames == InitNames /\ [][FromSlice]_vars

----------------------------------------------------------------------------
(* Properties of Names::from_slice *)

\* an element of the slice narrowed to a name: a variable stays a variable, a
\* quote stays a quote, and both keep the span of the element
NarrowedAt(i) ==
    LET p == given_slice[i].proc
    IN [name |-> IF p.tag = "ProcVar" THEN [tag |-> "ProcVar", var |-> p.var]
                 ELSE [tag |-> "Quote", proc |-> p.proc],
        span |-> given_slice[i].span]

\* C21: whenever Names::from_slice(slice, with_remainder) returns Ok(n), the
\* names of n and its remainder (counted 1 when present) add up to the length
\* of the slice, the remainder is present exactly when with_remainder is
\* true, and the names are the first elements of the slice narrowed, in
\* order; it returns Err for an empty slice and for a slice of one element
\* with with_remainder true.
C21_FromSliceKeepsTheSlice ==
    built_names # NotCalled =>
        /\ built_names.ok =>
              LET n == built_names.v
              IN /\ Len(n.names) + (IF n.remainder.tag = "Some" THEN 1 ELSE 0)
                        = Len(given_slice)
                 /\ (n.remainder.tag = "Some") <=> given_flag
                 /\ \A i \in 1..Len(n.names) : n.names[i] = NarrowedAt(i)
        /\ given_slice = <<>> => ~built_names.ok
        /\ (Len(given_slice) = 1 /\ given_flag) => ~built_names.ok

\* a slice of three elements, a quote among the first two, was turned into
\* two names and a remainder
C21_Witness ==
    /\ built_names # NotCalled
    /\ built_names.ok
    /\ given_flag
    /\ Len(given_slice) = 3
    /\ \E i \in 1..2 : given_slice[i].proc.tag = "Quote"
    /\ built_names.v.remainder.tag = "Some"

----------------------------------------------------------------------------
(* The driver against the recursive translation *)

LeafKinds ==
    {"nil", "unit", "wildcard", "var", "var_ref", "simple_type", "bool_literal",
     "long_literal", "string_literal", "uri_literal"}

\* the process a leaf node stands for, read off the node alone
LeafProc(n) ==
    LET c == cst[n]
    IN CASE c.kind = "nil" -> NIL
         [] c.kind = "unit" -> UNIT
         [] c.kind = "wildcard" -> WILD
         [] c.kind = "var" -> alloc_var(Id(c.info.text, n))
         [] c.kind = "var_ref" ->
                alloc_var_ref(IF c.info.kind = "=" THEN "Proc" ELSE "Name",
                              Id(c.info.text, Within(n, 2)))
         [] c.kind = "simple_type" -> alloc_simple_type(c.info.text)
         [] c.kind = "bool_literal" -> BoolLiteral(c.info.text = "true")
         [] c.kind = "long_literal" ->
                IF ParseI64(c.info.text).ok
                THEN alloc_long_literal(ParseI64(c.info.text).v) ELSE BAD
         [] c.kind = "string_literal" -> alloc_string_literal(c.info.text)
         [] c.kind = "uri_literal" -> alloc_uri_literal(c.info.text)

\* an AnnProc narrowed to a name, to a variable
AsName(ap) == ToAnnName(ap).v
AsVar(ap) == ToVar(ap).v

\* the composite of node n over the translations t of its children, each
\* child mapped to the field it stands for
Composed(n, t) ==
    LET c == cst[n]
        i == c.info
        all(ns) == [j \in 1..Len(ns) |-> t[ns[j]]]
    IN CASE c.kind = "par" -> [tag |-> "Par", left |-> t[i.left], right |-> t[i.right]]
         [] c.kind \in BinaryKinds ->
                [tag |-> "BinaryExp", op |-> BinaryOpOf(c.kind),
                 left |-> t[i.left], right |-> t[i.right]]
         [] c.kind \in UnaryKinds ->
                [tag |-> "UnaryExp", op |-> UnaryOpOf(c.kind), arg |-> t[i.arg].proc]
         [] c.kind = "ifElse" ->
                [tag |-> "IfThenElse", condition |-> t[i.condition],
                 if_true |-> t[i.consequence],
                 if_false |-> IF i.alternative = 0 THEN NoProc
                              ELSE [tag |-> "Some", v |-> t[i.alternative]]]
         [] c.kind = "send" ->
                [tag |-> "Send", channel |-> AsName(t[i.channel]),
                 send_type |-> IF i.send_type = "send_single" THEN "Single" ELSE "Multiple",
                 inputs |-> all(i.inputs)]
         [] c.kind = "send_sync" ->
                [tag |-> "SendSync", channel |-> AsName(t[i.channel]),
                 messages |-> all(i.inputs),
                 cont |-> IF i.cont = 0 THEN [tag |-> "Empty"]
                          ELSE [tag |-> "NonEmpty", v |-> t[i.cont]]]
         [] c.kind = "method" ->
                [tag |-> "Method", receiver |-> t[i.receiver], name |-> Id(i.name, n),
                 args |-> all(i.args)]
         [] c.kind = "contract" ->
                LET k == Len(i.formals) - (IF i.has_cont THEN 1 ELSE 0)
                IN [tag |-> "Contract", name |-> AsName(t[i.name]),
                    formals |-> [names |-> [j \in 1..k |-> AsName(t[i.formals[j]])],
                                 remainder |-> IF i.has_cont
                                               THEN SomeVar(AsVar(t[Last(i.formals)]))
                                               ELSE NoVar],
                    body |-> t[i.proc]]
         [] c.kind = "match" ->
                [tag |-> "Match", expression |-> t[i.expression],
                 cases |-> [j \in 1..Len(i.cases) |->
                               [pattern |-> t[i.cases[j][1]], proc |-> t[i.cases[j][2]]]]]
         [] c.kind = "bundle" ->
                [tag |-> "Bundle", bundle_type |-> BundleTypeOf(i.bundle_type),
                 proc |-> t[i.proc]]
         [] c.kind = "eval" -> [tag |-> "Eval", name |-> AsName(t[i.name])]
         [] c.kind = "quote" -> [tag |-> "Quote", proc |-> t[i.proc].proc]
         [] c.kind = "new" -> [tag |-> "New", decls |-> sorted[n], proc |-> t[i.proc]]

ChildrenOf(n) == { j \in 1..Len(cst) : cst[j].parent = n }

\* the recursive translation of the nodes from n on: a node's children have
\* greater numbers than the node, so the nodes are translated last to first
RECURSIVE TranslateFrom(_, _)
TranslateFrom(n, t) ==
    IF n = 0 THEN t
    ELSE TranslateFrom(n - 1,
            [j \in 1..Len(cst) |->
                IF j # n THEN t[j]
                ELSE IF cst[n].kind = "block" THEN t[CHOOSE k \in ChildrenOf(n) : TRUE]
                ELSE IF cst[n].kind \in LeafKinds THEN AnnProc(LeafProc(n), n)
                ELSE AnnProc(Composed(n, t), n)])

Translated == TranslateFrom(Len(cst), [j \in 1..Len(cst) |-> NoProc])[1]

\* the constructs of the comparison: leaves, blocks, and the composites with
\* a straightforward translation
ComparedKinds ==
    LeafKinds \cup BinaryKinds \cup UnaryKinds \cup
    {"block", "par", "ifElse", "send", "send_sync", "method", "contract", "match",
     "bundle", "eval", "quote", "new"}

\* every node known so far is of a compared construct; a contract has formals
OfComparedKinds ==
    \A n \in 1..Len(cst) :
        /\ cst[n].kind \in ComparedKinds \cup {"?"}
        /\ cst[n].kind = "contract" => cst[n].info.has_formals

\* the tree the driver returned
ProducedTree ==
    IF result.tag = "Good" THEN result.v ELSE result.partial_tree.v

\* C22: for every error-free CST built from par, unary and binary
\* expressions, if-then(-else), send, send_sync, method call, contract with
\* formals, match, bundle, eval, quote and new (over leaves and blocks), the
\* walk of the explicit-stack driver returns, and the tree it returns equals
\* the tree of the recursive translation that maps each child to its field.
C22_DriverEqualsRecursiveTranslation ==
    OfComparedKinds =>
        /\ pc \notin {"panic", "hang"}
        /\ Returned => ProducedTree = Translated

\* the tree of a par over a send was returned
C22_Witness ==
    /\ Returned
    /\ result.tag = "Good"
    /\ OfComparedKinds
    /\ Cardinality({ n \in 1..Len(cst) :
                        cst[n].kind \notin LeafKinds \cup {"block"} }) = 2
    /\ cst[1].kind = "par"
    /\ \E n \in 1..Len(cst) : cst[n].kind = "send"

----------------------------------------------------------------------------
(* Spans *)

\* the variant of Proc that the arm of a node of the given kind makes when
\* nothing is wrong with the node
VariantOf(kind) ==
    CASE kind = "nil" -> "Nil"
      [] kind = "unit" -> "Unit"
      [] kind \in {"wildcard", "var"} -> "ProcVar"
      [] kind = "var_ref" -> "VarRef"
      [] kind = "simple_type" -> "SimpleType"
      [] kind = "bool_literal" -> "BoolLiteral"
      [] kind = "long_literal" -> "LongLiteral"
      [] kind = "string_literal" -> "StringLiteral"
      [] kind = "uri_literal" -> "UriLiteral"
      [] kind = "par" -> "Par"
      [] kind \in BinaryKinds -> "BinaryExp"
      [] kind \in UnaryKinds -> "UnaryExp"
      [] kind = "ifElse" -> "IfThenElse"
      [] kind = "send" -> "Send"
      [] kind = "send_sync" -> "SendSync"
      [] kind = "method" -> "Method"
      [] kind = "contract" -> "Contract"
      [] kind = "match" -> "Match"
      [] kind = "bundle" -> "Bundle"
      [] kind = "eval" -> "Eval"
      [] kind = "quote" -> "Quote"
      [] kind = "new" -> "New"
      [] kind = "let" -> "Let"
      [] kind = "input" -> "ForComprehension"
      [] kind = "collection" -> "Collection"
      [] OTHER -> "Bad"

\* the AnnProc ap is what the dispatch of the node of its span creates: the
\* node is a node of the tree that has been the cursor, it is no block, a
\* Bad sits on an error node, a missing node or a long literal out of range,
\* and any other process on a node of its own construct
MadeByItsNode(ap) ==
    /\ ap.span \in 1..Len(cst)
    /\ cst[ap.span].kind \notin {"?", "block"}
    /\ IF ap.proc.tag = "Bad"
       THEN \/ IsErrorKind(cst[ap.span].kind)
            \/ /\ cst[ap.span].kind = "long_literal"
               /\ ~ParseI64(cst[ap.span].info.text).ok
       ELSE ap.proc.tag = VariantOf(cst[ap.span].kind)

\* the innermost process of a nest of blocks
RECURSIVE InnerOf(_)
InnerOf(n) ==
    IF cst[n].kind = "block" THEN InnerOf(CHOOSE j \in ChildrenOf(n) : TRUE) ELSE n

\* C23: every AnnProc the driver produces carries the range of exactly one
\* CST node, the node whose dispatch created it: the composite node for the
\* result of a Consume* step, the leaf node for a leaf, the error node, the
\* missing node or the long literal out of range for a Bad.  A block creates
\* no AnnProc of its own: the result for a block carries the span of its
\* inner process.
C23_SpanOfTheCreatingNode ==
    /\ \A k \in 1..Len(made) :
          /\ MadeByItsNode(made[k])
          /\ \A j \in 1..Len(made) : made[j].span = made[k].span => j = k
    /\ \A i \in 1..Len(proc_stack) :
          \E k \in 1..Len(made) : made[k] = proc_stack[i]
    /\ (Returned /\ result.tag = "Good") =>
          /\ \E k \in 1..Len(made) : made[k] = result.v
          /\ result.v.span = InnerOf(1)

\* the walk of a block around a par has returned: the result carries the
\* span of the par, not of the block
C23_Witness ==
    /\ Returned
    /\ result.tag = "Good"
    /\ cst[1].kind = "block"
    /\ \E n \in 1..Len(cst) : cst[n].kind = "par" /\ cst[n].parent = 1
    /\ result.v.span = 2

----------------------------------------------------------------------------
(* The shell's input handling (shell/src/lib.rs) *)

\* Bound on the number of lines in the buffer.
MaxBuffer == 3

\* A String is the sequence of its characters.
NEWLINE == "nl"
Lines ==
    { <<>>, <<"a">>, <<"{">>, <<"{", "a", "}">>, <<"(", "{", ")">> }

\* a join that puts the lines together latest first
RECURSIVE Join_latest_first(_)
Join_latest_first(lines) ==
    IF lines = <<>> THEN <<>>
    ELSE IF Len(lines) = 1 THEN lines[1]
    ELSE Join_latest_first(Tail(lines)) \o <<NEWLINE>> \o lines[1]

\* [String]::join("\n")
RECURSIVE Join(_)
Join(lines) ==
    IF lines = <<>> THEN <<>>
    ELSE IF Len(lines) = 1 THEN lines[1]
    ELSE lines[1] \o <<NEWLINE>> \o Join(Tail(lines))

\* the brackets open at the end of the text
RECURSIVE Depth(_)
Depth(text) ==
    IF text = <<>> THEN 0
    ELSE LET before == Depth(Front(text))
         IN IF Last(text) \in {"{", "(", "["} THEN before + 1
            ELSE IF Last(text) \in {"}", ")", "]"} /\ before > 0 THEN before - 1
            ELSE before

\* BracketParser::get_final_state
get_final_state(text) == IF Depth(text) > 0 THEN "Inside" ELSE "Outside"

NoCommand == [tag |-> "None"]
SomeCommand(c) == [tag |-> "Some", command |-> c]

\* what a fallible step of the environment (the update_prompt closure, a
\* write to stdout) answers
Outcomes == {"Ok", "Err"}

\* the prompt after update_prompt(p) answering `up`
Prompted(p, up) == IF up = "Ok" THEN p ELSE prompt

\* the variables the shell leaves alone
beside_shell == <<driver_vars, names_vars, helper_vars, provider_vars, iter_vars>>

\* process_multiline_input that goes back to single line mode with the command
\* it returns
ProcessMultilineInput_leaving_mode ==
    \E line \in Lines, up \in Outcomes :
        LET called(asked, ret) ==
                last_call' = [fn |-> "process_multiline_input", line |-> line,
                              update_prompt |-> asked, ret |-> ret]
        IN /\ line # <<>> => Len(buffer) < MaxBuffer
           /\ IF buffer = <<>>
              THEN IF line = <<>>
                   THEN /\ up = "Ok"
                        /\ called("none", Ok(NoCommand))
                        /\ UNCHANGED <<buffer, prompt, multiline>>
                   ELSE /\ buffer' = <<line>>
                        /\ prompt' = Prompted("... ", up)
                        /\ called(up, IF up = "Ok" THEN Ok(NoCommand)
                                      ELSE Err("update_prompt"))
                        /\ UNCHANGED multiline
              ELSE IF line # <<>>
                   THEN /\ up = "Ok"
                        /\ buffer' = Append(buffer, line)
                        /\ called("none", Ok(NoCommand))
                        /\ UNCHANGED <<prompt, multiline>>
                   ELSE /\ buffer' = <<>>
                        /\ prompt' = Prompted(">>> ", up)
                        /\ called(up, IF up = "Ok" THEN Ok(SomeCommand(Join(buffer)))
                                      ELSE Err("update_prompt"))
                        /\ multiline' = FALSE
           /\ UNCHANGED <<switched_by_input, beside_shell>>

\* process_multiline_input(line, buffer, update_prompt)
ProcessMultilineInput ==
    \E line \in Lines, up \in Outcomes :
        LET called(asked, ret) ==
                last_call' = [fn |-> "process_multiline_input", line |-> line,
                              update_prompt |-> asked, ret |-> ret]
        IN /\ line # <<>> => Len(buffer) < MaxBuffer
           /\ IF buffer = <<>>
              THEN IF line = <<>>
                   THEN /\ up = "Ok"
                        /\ called("none", Ok(NoCommand))
                        /\ UNCHANGED <<buffer, prompt>>
                   ELSE /\ buffer' = <<line>>
                        /\ prompt' = Prompted("... ", up)
                        /\ called(up, IF up = "Ok" THEN Ok(NoCommand)
                                      ELSE Err("update_prompt"))
              ELSE IF line # <<>>
                   THEN /\ up = "Ok"
                        /\ buffer' = Append(buffer, line)
                        /\ called("none", Ok(NoCommand))
                        /\ UNCHANGED prompt
                   ELSE /\ buffer' = <<>>
                        /\ prompt' = Prompted(">>> ", up)
                        /\ called(up, IF up = "Ok" THEN Ok(SomeCommand(Join(buffer)))
                                      ELSE Err("update_prompt"))
           /\ UNCHANGED <<multiline, switched_by_input, beside_shell>>

\* process_single_line_input that buffers an open line without changing the
\* mode
ProcessSingleLineInput_keeping_mode ==
    \E line \in Lines, up \in Outcomes :
        LET called(asked, ret) ==
                last_call' = [fn |-> "process_single_line_input", line |-> line,
                              update_prompt |-> asked, ret |-> ret]
        IN /\ get_final_state(line) = "Inside" => Len(buffer) < MaxBuffer
           /\ IF line = <<>>
              THEN /\ up = "Ok"
                   /\ called("none", Ok(NoCommand))
                   /\ UNCHANGED <<buffer, multiline, prompt>>
              ELSE IF get_final_state(line) = "Inside"
              THEN /\ multiline' = multiline
                   /\ buffer' = Append(buffer, line)
                   /\ prompt' = Prompted("... ", up)
                   /\ called(up, IF up = "Ok" THEN Ok(NoCommand)
                                 ELSE Err("update_prompt"))
              ELSE /\ up = "Ok"
                   /\ called("none", Ok(SomeCommand(line)))
                   /\ UNCHANGED <<buffer, multiline, prompt>>
           /\ switched_by_input' = (switched_by_input \/ (~multiline /\ multiline'))
           /\ UNCHANGED beside_shell

\* process_single_line_input(line, buffer, multiline, update_prompt);
\* BracketParser::new() is taken to succeed
ProcessSingleLineInput ==
    \E line \in Lines, up \in Outcomes :
        LET called(asked, ret) ==
                last_call' = [fn |-> "process_single_line_input", line |-> line,
                              update_prompt |-> asked, ret |-> ret]
        IN /\ get_final_state(line) = "Inside" => Len(buffer) < MaxBuffer
           /\ IF line = <<>>
              THEN /\ up = "Ok"
                   /\ called("none", Ok(NoCommand))
                   /\ UNCHANGED <<buffer, multiline, prompt>>
              ELSE IF get_final_state(line) = "Inside"
              THEN /\ multiline' = TRUE
                   /\ buffer' = Append(buffer, line)
                   /\ prompt' = Prompted("... ", up)
                   /\ called(up, IF up = "Ok" THEN Ok(NoCommand)
                                 ELSE Err("update_prompt"))
              ELSE /\ up = "Ok"
                   /\ called("none", Ok(SomeCommand(line)))
                   /\ UNCHANGED <<buffer, multiline, prompt>>
           /\ switched_by_input' = (switched_by_input \/ (~multiline /\ multiline'))
           /\ UNCHANGED beside_shell

\* the answers of InterpreterProvider::kill_all_processes: Ok(count) or Err
KillAllAnswers == {"Ok(0)", "Ok(2)", "Err"}

\* handle_interrupt(buffer, multiline, stdout, update_prompt, interpreter)
HandleInterrupt ==
    \E up \in Outcomes, write \in Outcomes, killed \in KillAllAnswers :
        LET asked == IF multiline THEN up ELSE "none"
            stopped == multiline /\ up = "Err"
        IN /\ ~multiline => up = "Ok"
           /\ stopped => write = "Ok" /\ killed = "Ok(0)"
           /\ buffer' = IF multiline THEN <<>> ELSE buffer
           /\ prompt' = IF multiline THEN Prompted(">>> ", up) ELSE prompt
           /\ last_call' =
                [fn |-> "handle_interrupt", update_prompt |-> asked,
                 kill_all_processes |-> IF stopped THEN <<>> ELSE <<killed>>,
                 ret |-> IF stopped THEN Err("update_prompt")
                         ELSE IF write = "Err" THEN Err("write")
                         ELSE Ok(<<>>)]
           /\ UNCHANGED <<multiline, switched_by_input, beside_shell>>

DOT_HELP == <<".", "h", "e", "l", "p">>
DOT_MODE == <<".", "m", "o", "d", "e">>
DOT_QUIT == <<".", "q", "u", "i", "t">>
DOT_LIST == <<".", "l", "i", "s", "t">>
DOT_DELETE == <<".", "d", "e", "l", "e", "t", "e">>
DOT_DEL == <<".", "d", "e", "l">>
DOT_RESET == <<".", "r", "e", "s", "e", "t">>
DOT_BUFFER == <<".", "b", "u", "f", "f", "e", "r">>
DOT_PS == <<".", "p", "s">>
DOT_KILL_ == <<".", "k", "i", "l", "l", " ">>

\* the commands handed to process_special_command
Commands ==
    { <<"a">>, DOT_HELP, DOT_MODE, DOT_QUIT, DOT_LIST, DOT_DELETE, DOT_DEL, DOT_RESET,
      DOT_BUFFER, DOT_PS, DOT_KILL_ \o <<"1">>, DOT_KILL_ \o <<"x">>, <<".", "x">> }

Digits == {"0", "1", "2", "3", "4", "5", "6", "7", "8", "9"}

\* str::trim followed by str::parse::<usize>: does it yield a number
ParsesAsUsize(text) ==
    LET t == TrimEnd(TrimStart(text, " "), " ")
    IN t # <<>> /\ \A i \in 1..Len(t) : t[i] \in Digits

\* a toggle that can only switch multiline mode on
Toggle_only_on(flag) == TRUE

\* *multiline = !*multiline
Toggle(flag) == ~flag

\* the answers of InterpreterProvider::kill_process
KillAnswers == {"Ok(true)", "Ok(false)", "Err"}

\* process_special_command(command, buffer, multiline, stdout, update_prompt,
\* interpreter)
ProcessSpecialCommand ==
    \E command \in Commands, up \in Outcomes, write \in Outcomes, killed \in KillAnswers :
        LET is_kill == IsPrefix(DOT_KILL_, command)
            pid == Drop(command, Len(DOT_KILL_))
            kills == is_kill /\ ParsesAsUsize(pid)
            to_single == command = DOT_MODE /\ multiline
            prompts == ~is_kill /\ (to_single \/ command = DOT_RESET)
            stopped == prompts /\ up = "Err"
            special == command # <<>> /\ command[1] = "."
        IN /\ ~prompts => up = "Ok"
           /\ ~kills => killed = "Ok(false)"
           /\ (~special \/ stopped) => write = "Ok"
           /\ multiline' = IF command = DOT_MODE THEN Toggle(multiline) ELSE multiline
           /\ buffer' = IF to_single \/ command = DOT_RESET THEN <<>>
                        ELSE IF command \in {DOT_DELETE, DOT_DEL} /\ buffer # <<>>
                        THEN Front(buffer)
                        ELSE buffer
           /\ prompt' = IF prompts THEN Prompted(">>> ", up) ELSE prompt
           /\ last_call' =
                [fn |-> "process_special_command", line |-> command,
                 multiline |-> multiline,
                 update_prompt |-> IF prompts THEN up ELSE "none",
                 kill_process |-> IF kills THEN <<killed>> ELSE <<>>,
                 ret |-> IF ~special THEN Ok(FALSE)
                         ELSE IF stopped THEN Err("update_prompt")
                         ELSE IF write = "Err" THEN Err("write")
                         ELSE Ok(command = DOT_QUIT)]
           /\ switched_by_input' = (switched_by_input /\ command # DOT_MODE)
           /\ UNCHANGED beside_shell

\* run_shell starts with an empty buffer, the prompt ">>> " and the mode of
\* its arguments
InitShell ==
    /\ DriverAtRest
    /\ IterAtRest
    /\ NamesAtRest
    /\ HelperAtRest
    /\ ProviderAtRest
    /\ buffer = <<>>
    /\ multiline \in BOOLEAN
    /\ prompt = ">>> "
    /\ last_call = NoCall
    /\ switched_by_input = FALSE

NextShell ==
    \/ ProcessSpecialCommand
    \/ ProcessMultilineInput
    \/ ProcessSingleLineInput
    \/ HandleInterrupt

SpecShell == InitShell /\ [][NextShell]_vars

----------------------------------------------------------------------------
(* Properties of the shell's input handling *)

\* the step is a call of the shell function fn
CallOf(fn) == last_call'.fn = fn

\* the lines in the order of arrival, a newline between one and the next
RECURSIVE InArrivalOrder(_)
InArrivalOrder(lines) ==
    IF Len(lines) = 1 THEN lines[1]
    ELSE InArrivalOrder(Front(lines)) \o <<NEWLINE>> \o Last(lines)

\* C24 as stated: over any sequence of calls, process_multiline_input
\* returns Some(command) exactly when the line is empty and the buffer is
\* non-empty; the command is the buffered lines joined by a newline in
\* arrival order and the buffer is empty afterwards; a non-empty line is
\* appended to the buffer and returns None; an empty line with an empty
\* buffer returns None and changes nothing.
C24_MultilineInputAsStated ==
    [][CallOf("process_multiline_input") =>
        LET line == last_call'.line
            ret == last_call'.ret
            completes == line = <<>> /\ buffer # <<>>
        IN /\ (ret.ok /\ ret.v.tag = "Some") <=> completes
           /\ completes => ret = Ok(SomeCommand(InArrivalOrder(buffer))) /\ buffer' = <<>>
           /\ line # <<>> => buffer' = Append(buffer, line) /\ ret = Ok(NoCommand)
           /\ (line = <<>> /\ buffer = <<>>) =>
                 ret = Ok(NoCommand) /\ UNCHANGED <<buffer, multiline, prompt>>
    ]_vars

\* C24 amended: the buffer changes as stated in every call; update_prompt is
\* called when a line enters an empty buffer and when a command is
\* completed; the call returns what is stated when update_prompt is not
\* called or succeeds, and the error of update_prompt when it fails.
C24_MultilineInput ==
    [][CallOf("process_multiline_input") =>
        LET line == last_call'.line
            ret == last_call'.ret
            asked == last_call'.update_prompt
            completes == line = <<>> /\ buffer # <<>>
            enters == line # <<>> /\ buffer = <<>>
        IN /\ (asked # "none") <=> (completes \/ enters)
           /\ (asked = "Err") <=> ~ret.ok
           /\ (ret.ok /\ ret.v.tag = "Some") <=> (completes /\ asked = "Ok")
           /\ completes => /\ buffer' = <<>>
                           /\ ret.ok => ret = Ok(SomeCommand(InArrivalOrder(buffer)))
           /\ line # <<>> => /\ buffer' = Append(buffer, line)
                             /\ ret.ok => ret = Ok(NoCommand)
           /\ (line = <<>> /\ buffer = <<>>) =>
                 ret = Ok(NoCommand) /\ UNCHANGED <<buffer, multiline, prompt>>
    ]_vars

\* three lines were entered and an empty line has returned them as one
\* command, the brace line first
C24_Witness ==
    /\ last_call.fn = "process_multiline_input"
    /\ last_call.line = <<>>
    /\ last_call.ret = Ok(SomeCommand(<<"{", NEWLINE, "a", NEWLINE, "{", "a", "}">>))
    /\ buffer = <<>>

\* how often one of the characters cs occurs in the text
RECURSIVE CountOf(_, _)
CountOf(text, cs) ==
    IF text = <<>> THEN 0
    ELSE (IF Head(text) \in cs THEN 1 ELSE 0) + CountOf(Tail(text), cs)

\* the line ends inside an unclosed bracket
EndsInUnclosedBracket(line) ==
    CountOf(line, {"{", "(", "["}) > CountOf(line, {"}", ")", "]"})

ModeCommand == CallOf("process_special_command") /\ last_call'.line = DOT_MODE

\* C26: the .mode command flips the multiline flag on every call, so that two
\* consecutive .mode commands restore the mode there was before the first,
\* and never signals exit (it never returns Ok(true)); after a switch to
\* single line mode the buffer is empty.
C26_ModeCommandFlips ==
    [][ModeCommand =>
        /\ multiline' = ~multiline
        /\ last_call'.ret # Ok(TRUE)
        /\ ~multiline' => buffer' = <<>>
        /\ (last_call.fn = "process_special_command" /\ last_call.line = DOT_MODE) =>
              multiline' = last_call.multiline
    ]_vars

\* a .mode command given in multiline mode has switched to single line mode
C26_Witness ==
    /\ last_call.fn = "process_special_command"
    /\ last_call.line = DOT_MODE
    /\ last_call.ret = Ok(FALSE)
    /\ last_call.multiline
    /\ ~multiline
    /\ buffer = <<>>

----------------------------------------------------------------------------
(* process_line (shell/src/multiline_helper.rs) *)

\* Bound on the number of lines handed to process_line.
MaxEntered == 5

\* the lines handed to process_line: the empty line and two content lines
HelperLines == { <<>>, <<"a">>, <<"b">> }

\* str::ends_with
ends_with(s, suffix) ==
    /\ Len(s) >= Len(suffix)
    /\ SubSeq(s, Len(s) - Len(suffix) + 1, Len(s)) = suffix

\* the variables process_line leaves alone
beside_helper == <<driver_vars, names_vars, shell_vars, provider_vars, iter_vars>>

\* process_line(line, buffer, in_multiline_mode)
ProcessLine ==
    /\ Len(entered) < MaxEntered
    /\ \E line \in HelperLines :
        LET pushed == (IF line_buffer # <<>> THEN Append(line_buffer, NEWLINE)
                       ELSE line_buffer) \o line
        IN /\ entered' = Append(entered, line)
           /\ IF ~in_multiline_mode /\ line = <<>>
              THEN /\ line_buffer' = pushed
                   /\ in_multiline_mode' = TRUE
                   /\ execute' = FALSE
              ELSE IF /\ in_multiline_mode
                      /\ line = <<>>
                      /\ ends_with(pushed, <<NEWLINE, NEWLINE>>)
              THEN /\ line_buffer' = TrimEnd(pushed, NEWLINE)
                   /\ in_multiline_mode' = FALSE
                   /\ execute' = TRUE
              ELSE /\ line_buffer' = pushed
                   /\ execute' = FALSE
                   /\ UNCHANGED in_multiline_mode
    /\ UNCHANGED beside_helper

\* an empty buffer in single line mode
InitHelper ==
    /\ DriverAtRest
    /\ IterAtRest
    /\ NamesAtRest
    /\ ShellAtRest
    /\ ProviderAtRest
    /\ HelperAtRest

SpecHelper == InitHelper /\ [][ProcessLine]_vars

----------------------------------------------------------------------------
(* Properties of process_line *)

\* C30: from an empty buffer in single line mode, after a content line, an
\* empty line and another content line, the next single empty line makes
\* process_line return true, puts the mode back to single line and leaves in
\* the buffer the entered lines, a newline between one and the next, without
\* the newlines at the end.
C30_SingleEmptyLineExecutes ==
    ( /\ Len(entered) = 4
      /\ entered[1] # <<>>
      /\ entered[2] = <<>>
      /\ entered[3] # <<>>
      /\ entered[4] = <<>> )
    => /\ execute
       /\ ~in_multiline_mode
       /\ line_buffer = entered[1] \o <<NEWLINE, NEWLINE>> \o entered[3]

----------------------------------------------------------------------------
(* RholangParserInterpreterProvider (shell/src/providers.rs) *)
(* A call of interpret runs in pieces: each lock region is one step, the    *)
(* spawned task runs beside it, and list_processes, kill_process and        *)
(* kill_all_processes of other threads or tasks may come between any two.   *)

\* Bound on the number of calls of interpret.
MaxCalls == 2

\* the timeout of the spawned task, in milliseconds
TIMEOUT_MS == 30000

\* code that parses and code whose parse tree has an error
Codes == { "Nil", "}" }

\* the delays set_delay is given: none, the default, one past the timeout
Delays == { 0, 2000, 40000 }

\* the pids kill_process is given: every pid interpret may assign and one more
Pids == 1..(MaxCalls + 1)

Success(v) == [tag |-> "Success", v |-> v]
Error(message) == [tag |-> "Error", message |-> message]
NoResult == [tag |-> "none"]

Cancelled == Error("Parser was cancelled")
TimedOut == Error("Parser timed out after 30 seconds")

\* the result of parser.get_pretty_tree(code), as interpret_future maps it
Parsed(code) ==
    IF code = "}" THEN Error("Parse tree contains errors") ELSE Success(code)

NoTask == [state |-> "none"]

\* HashMap::remove
Without(map, pid) == [p \in DOMAIN map \ {pid} |-> map[p]]

\* the orders in which a HashMap may hand out its entries
Orderings(S) ==
    { o \in [1..Cardinality(S) -> S] : \A i, j \in DOMAIN o : i # j => o[i] # o[j] }

\* the variables the provider leaves alone
beside_provider == <<driver_vars, names_vars, shell_vars, helper_vars, iter_vars>>

\* set_delay(delay_ms)
SetDelay ==
    /\ \E d \in Delays \ {delay_ms} : delay_ms' = d
    /\ UNCHANGED <<processes, next_pid, calls, tasks, killed_by, last_op, beside_provider>>

next_pid_kept(pid) == pid

\* `*next_pid += 1`
next_pid_after(pid) == pid + 1

\* interpret, up to the process ID: the parser and the cancel channel are
\* created and next_pid is read and counted up under its lock
InterpretBegin ==
    /\ Len(calls) < MaxCalls
    /\ \E code \in Codes, parser_created \in BOOLEAN :
        IF parser_created
        THEN /\ calls' = Append(calls, [at |-> "has_pid", code |-> code, pid |-> next_pid,
                                        cancel |-> "open", ret |-> NoResult])
             /\ next_pid' = next_pid_after(next_pid)
        ELSE /\ calls' = Append(calls, [at |-> "returned", code |-> code, pid |-> 0,
                                        cancel |-> "open",
                                        ret |-> Error("Failed to create parser")])
             /\ UNCHANGED next_pid
    /\ tasks' = Append(tasks, NoTask)
    /\ UNCHANGED <<processes, delay_ms, killed_by, last_op, beside_provider>>

\* interpret stores the process info under the lock of the map
InterpretRegister(c) ==
    /\ calls[c].at = "has_pid"
    /\ processes' = (calls[c].pid :> [code |-> calls[c].code, cancel_sender |-> c])
                    @@ processes
    /\ calls' = [calls EXCEPT ![c].at = "registered"]
    /\ UNCHANGED <<next_pid, delay_ms, tasks, killed_by, last_op, beside_provider>>

\* interpret reads the delay and spawns the task, then awaits its handle
InterpretSpawn(c) ==
    /\ calls[c].at = "registered"
    /\ tasks' = [tasks EXCEPT ![c] = [state |-> "running", delay |-> delay_ms,
                                      elapsed |-> (delay_ms = 0),
                                      result |-> NoResult]]
    /\ calls' = [calls EXCEPT ![c].at = "awaiting"]
    /\ UNCHANGED <<processes, next_pid, delay_ms, killed_by, last_op, beside_provider>>

\* the time of the task passes: its sleep, or the timeout if that is shorter
Elapse(c) ==
    /\ tasks[c].state = "running"
    /\ ~tasks[c].elapsed
    /\ tasks' = [tasks EXCEPT ![c].elapsed = TRUE]
    /\ UNCHANGED <<processes, next_pid, delay_ms, calls, killed_by, last_op, beside_provider>>

\* a select! whose timeout never fires: a delay beyond it is waited for
Ready_without_timeout(c) ==
    (IF tasks[c].elapsed /\ tasks[c].delay <= TIMEOUT_MS THEN {"timeout_future"} ELSE {})
    \cup (IF calls[c].cancel = "sent" THEN {"cancel_future"} ELSE {})

\* the branches of the task's select! that are ready
Ready(c) ==
    (IF tasks[c].elapsed THEN {"timeout_future"} ELSE {})
    \cup (IF calls[c].cancel = "sent" THEN {"cancel_future"} ELSE {})

\* the task's select! completes with one of its ready branches; when both
\* are ready it takes either
TaskFinish(c) ==
    /\ tasks[c].state = "running"
    /\ \E branch \in Ready(c) :
        tasks' = [tasks EXCEPT ![c].state = "finished",
                               ![c].result =
                                   IF branch = "cancel_future" THEN Cancelled
                                   ELSE IF tasks[c].delay > TIMEOUT_MS THEN TimedOut
                                   ELSE Parsed(calls[c].code)]
    /\ UNCHANGED <<processes, next_pid, delay_ms, calls, killed_by, last_op, beside_provider>>

\* the pid is removed from a map with the removal `removed`, and the call
\* returns the result of its task
InterpretReturns(c, removed) ==
    /\ calls[c].at = "awaiting"
    /\ tasks[c].state = "finished"
    /\ processes' = removed
    /\ calls' = [calls EXCEPT ![c].at = "returned", ![c].ret = tasks[c].result]
    /\ UNCHANGED <<next_pid, delay_ms, tasks, killed_by, last_op, beside_provider>>

InterpretEnd_keeping_pid(c) == InterpretReturns(c, processes)

\* interpret, from the end of handle.await: the pid is removed under the
\* lock of the map and the result of the task is returned
InterpretEnd(c) == InterpretReturns(c, Without(processes, calls[c].pid))

\* sender.send(()) on the channels of the calls in `cs`: it reaches a
\* receiver that the task has not yet dropped
Sent(cs) ==
    [c \in DOMAIN calls |->
        IF c \in cs /\ tasks[c].state # "finished"
        THEN [calls[c] EXCEPT !.cancel = "sent"]
        ELSE calls[c]]

\* list_processes()
ListProcesses ==
    /\ \E o \in Orderings(DOMAIN processes) :
        last_op' = [fn |-> "list_processes",
                    ret |-> Ok([i \in DOMAIN o |-> <<o[i], processes[o[i]].code>>])]
    /\ UNCHANGED <<processes, next_pid, delay_ms, calls, tasks, killed_by, beside_provider>>

\* kill_process(pid)
KillProcess ==
    /\ \E pid \in Pids :
        IF pid \in DOMAIN processes
        THEN /\ processes' = Without(processes, pid)
             /\ calls' = Sent({processes[pid].cancel_sender})
             /\ killed_by' = (pid :> "kill_process") @@ killed_by
             /\ last_op' = [fn |-> "kill_process", pid |-> pid, ret |-> Ok(TRUE)]
        ELSE /\ last_op' = [fn |-> "kill_process", pid |-> pid, ret |-> Ok(FALSE)]
             /\ UNCHANGED <<processes, calls, killed_by>>
    /\ UNCHANGED <<next_pid, delay_ms, tasks, beside_provider>>

\* kill_all_processes()
KillAllProcesses ==
    /\ processes' = <<>>
    /\ calls' = Sent({ processes[p].cancel_sender : p \in DOMAIN processes })
    /\ killed_by' = [p \in DOMAIN processes |-> "kill_all_processes"] @@ killed_by
    /\ last_op' = [fn |-> "kill_all_processes",
                   ret |-> Ok(Cardinality(DOMAIN processes))]
    /\ UNCHANGED <<next_pid, delay_ms, tasks, beside_provider>>

\* RholangParserInterpreterProvider::new()
InitProvider ==
    /\ DriverAtRest
    /\ IterAtRest
    /\ NamesAtRest
    /\ ShellAtRest
    /\ HelperAtRest
    /\ ProviderAtRest

NextProvider ==
    \/ SetDelay
    \/ InterpretBegin
    \/ \E c \in DOMAIN calls : InterpretRegister(c)
    \/ \E c \in DOMAIN calls : InterpretSpawn(c)
    \/ \E c \in DOMAIN calls : Elapse(c)
    \/ \E c \in DOMAIN calls : TaskFinish(c)
    \/ \E c \in DOMAIN calls : InterpretEnd(c)
    \/ ListProcesses
    \/ KillProcess
    \/ KillAllProcesses

SpecProvider == InitProvider /\ [][NextProvider]_vars

----------------------------------------------------------------------------
(* Properties of RholangParserInterpreterProvider *)

\* C28: when kill_process(pid) has returned true for the pid of a call of
\* interpret, that call returns the cancellation Error.
C28_KilledCallReturnsCancellation ==
    \A c \in DOMAIN calls :
        ( /\ calls[c].at = "returned"
          /\ calls[c].pid \in DOMAIN killed_by
          /\ killed_by[calls[c].pid] = "kill_process" )
        => calls[c].ret = Cancelled

\* the call of interpret that registered the pid is under way: registered,
\* not yet returned
InFlight(pid) ==
    \E c \in DOMAIN calls :
        /\ calls[c].pid = pid
        /\ calls[c].at \in {"registered", "awaiting"}

EveryCallReturned == \A c \in DOMAIN calls : calls[c].at = "returned"

\* the step is a call of list_processes
ListStep ==
    /\ last_op'.fn = "list_processes"
    /\ last_op' # last_op

\* the step is a call of kill_all_processes
KillAllStep ==
    /\ last_op'.fn = "kill_all_processes"
    /\ (last_op' # last_op \/ killed_by' # killed_by)

\* the pids of a listing
PidsOf(listing) == { listing[i][1] : i \in DOMAIN listing }

\* C29: the map holds a pid only while the call of interpret that registered
\* it is under way and the pid has not been killed; list_processes returns
\* the pids of the map, so none once every call has returned;
\* kill_all_processes empties the map and returns the number of pids it
\* removed.
C29_ListedWhileInFlightAndNotKilled ==
    /\ [](\A pid \in DOMAIN processes : InFlight(pid) /\ pid \notin DOMAIN killed_by)
    /\ [][ /\ ListStep =>
                /\ last_op'.ret.ok
                /\ PidsOf(last_op'.ret.v) = DOMAIN processes
                /\ \A pid \in PidsOf(last_op'.ret.v) :
                       InFlight(pid) /\ pid \notin DOMAIN killed_by
                /\ EveryCallReturned => last_op'.ret.v = <<>>
           /\ KillAllStep =>
                /\ processes' = <<>>
                /\ last_op'.ret = Ok(Cardinality(DOMAIN processes \ DOMAIN processes'))
                /\ \A pid \in DOMAIN processes : pid \in DOMAIN killed_by' ]_vars

\* two calls of interpret have returned, the pid of the first killed by
\* kill_process and the pid of the second by kill_all_processes, and
\* list_processes has then returned the empty list
C29_Witness ==
    /\ Len(calls) = 2
    /\ EveryCallReturned
    /\ DOMAIN killed_by = {1, 2}
    /\ killed_by[1] = "kill_process"
    /\ killed_by[2] = "kill_all_processes"
    /\ last_op = [fn |-> "list_processes", ret |-> Ok(<<>>)]

----------------------------------------------------------------------------
(* The EvalList continuation *)

\* the places of the named children a cursor has not yet taken
NamedAhead(cursor) ==
    { i \in (cursor.at + 1)..Len(cursor.children) : cursor.children[i].named }

\* the least element of a non-empty set of numbers
Least(S) == CHOOSE i \in S : \A j \in S : i <= j

\* C31: a step of the drain loop with an EvalList on top of cont_stack moves
\* the cursor to the first named child the list has not yet taken, passing
\* over the unnamed ones, and leaves the list on the stack, standing on that
\* child; when no named child is left it pops the list and goes on draining
\* with the continuation beneath. No other step changes a continuation that
\* is on the stack, so the children are taken in source order, each once.
C31_EvalListTakesChildrenInOrder ==
    [][ /\ ( /\ pc = "drain"
             /\ cont_stack # <<>>
             /\ Last(cont_stack).k = "EvalList" ) =>
            LET list == Last(cont_stack)
                ahead == NamedAhead(list)
            IN IF ahead # {}
               THEN /\ node' = list.children[Least(ahead)].id
                    /\ pc' = "dispatch"
                    /\ cont_stack' = Front(cont_stack)
                                     \o <<[list EXCEPT !.at = Least(ahead)]>>
               ELSE /\ cont_stack' = Front(cont_stack)
                    /\ pc' = "drain"
                    /\ node' = node
        /\ \A i \in 1..Len(cont_stack) :
              ( /\ cont_stack[i].k = "EvalList"
                /\ ~(pc = "drain" /\ i = Len(cont_stack)) ) =>
                  /\ i <= Len(cont_stack')
                  /\ cont_stack'[i] = cont_stack[i] ]_vars

\* the cursor has just been moved to the second named child of a list that
\* is still on the stack
C31_Witness ==
    /\ pc = "dispatch"
    /\ cont_stack # <<>>
    /\ Last(cont_stack).k = "EvalList"
    /\ Last(cont_stack).at = 4
    /\ Cardinality({ i \in 1..4 : Last(cont_stack).children[i].named }) = 2
    /\ node = Last(cont_stack).children[4].id

----------------------------------------------------------------------------
(* LetBindingIter driven on its own: new(), then calls of next() *)

\* Bounds on the arities of the LetDecl and on the number of calls of next().
MaxIterLhs == 2
MaxIterRhs == 3
MaxNexts == 4

\* the operands of a declaration: a variable and a process that is no name
IterProcs == { alloc_var(Id("x", 0)), NIL }

\* the LetDecl values the `let` arm makes: a remainder is one of the named
\* children its lhs_arity counts
IterDecls ==
    { d \in [lhs_arity : 0..MaxIterLhs, lhs_has_cont : BOOLEAN, rhs_arity : 0..MaxIterRhs] :
        d.lhs_has_cont => d.lhs_arity >= 1 }

\* the slices LetDeclIter::next splits off for a declaration
IterSlices(d) ==
    { [i \in 1..(d.lhs_arity + d.rhs_arity) |-> AnnProc(ps[i], i)] :
        ps \in [1..(d.lhs_arity + d.rhs_arity) -> IterProcs] }

NoTail == [tag |-> "None"]
SomeTail(var, rhs) == [tag |-> "Some", var |-> var, rhs |-> rhs]

NoItem == [tag |-> "None"]
SingleBinding(lhs, rhs) == [tag |-> "Single", lhs |-> lhs, rhs |-> rhs]
MultipleBinding(lhs, rhs) == [tag |-> "Multiple", lhs |-> lhs, rhs |-> rhs]

\* LetBindingIter::new
LetBindingIter_new(decl, slice) ==
    IF slice = <<>> \/ Len(slice) # decl.lhs_arity + decl.rhs_arity
    THEN [tag |-> "panic",
          msg |-> "assertion failed: !slice.is_empty() && slice.len() == decl.lhs_arity + decl.rhs_arity"]
    ELSE LET lhs == Take(slice, decl.lhs_arity)
             rhs == Drop(slice, decl.lhs_arity)
         IN IF decl.lhs_has_cont /\ Len(rhs) > Len(lhs)
            THEN IF ~ToVar(Last(lhs)).ok THEN [tag |-> "panic", msg |-> "expected a var"]
                 ELSE [tag |-> "iter", lhs |-> Front(lhs), rhs |-> rhs, at |-> 0,
                       tail |-> SomeTail(ToVar(Last(lhs)).v,
                                         SubSeq(rhs, Len(lhs), Len(rhs)))]
            ELSE [tag |-> "iter", lhs |-> lhs, rhs |-> rhs, at |-> 0, tail |-> NoTail]

\* LetBindingIter::next: the next pair of the zip; once the zip has ended,
\* the tail, which `self.tail.map` copies and leaves in place
LetBindingIter_next(it) ==
    IF it.at < Len(it.lhs) /\ it.at < Len(it.rhs)
    THEN IF ~ToAnnName(it.lhs[it.at + 1]).ok
         THEN [iter |-> [tag |-> "panic", msg |-> "expected a name"], item |-> NoItem]
         ELSE [iter |-> [it EXCEPT !.at = it.at + 1],
               item |-> SingleBinding(ToAnnName(it.lhs[it.at + 1]).v, it.rhs[it.at + 1])]
    ELSE IF it.tail.tag = "Some"
         THEN [iter |-> it, item |-> MultipleBinding(it.tail.var, it.tail.rhs)]
         ELSE [iter |-> it, item |-> NoItem]

\* the variables the iterator leaves alone
beside_iter == <<driver_vars, names_vars, shell_vars, helper_vars, provider_vars>>

InitIter ==
    /\ DriverAtRest
    /\ NamesAtRest
    /\ ShellAtRest
    /\ HelperAtRest
    /\ ProviderAtRest
    /\ iter_decl \in IterDecls
    /\ iter_slice \in IterSlices(iter_decl)
    /\ iter_state = NotCalled
    /\ yielded = <<>>

\* LetBindingIter::new(&decl, slice)
IterNew ==
    /\ iter_state = NotCalled
    /\ iter_state' = LetBindingIter_new(iter_decl, iter_slice)
    /\ UNCHANGED <<iter_decl, iter_slice, yielded, beside_iter>>

\* one call of next()
IterNext ==
    /\ iter_state.tag = "iter"
    /\ Len(yielded) < MaxNexts
    /\ LET r == LetBindingIter_next(iter_state)
       IN /\ iter_state' = r.iter
          /\ yielded' = IF r.iter.tag = "panic" THEN yielded ELSE Append(yielded, r.item)
    /\ UNCHANGED <<iter_decl, iter_slice, beside_iter>>

NextIter ==
    \/ IterNew
    \/ IterNext

SpecIter == InitIter /\ [][NextIter]_vars

----------------------------------------------------------------------------
(* Properties of LetBindingIter *)

\* what the iterator is to yield for a left-hand side with a remainder: the
\* leading names with the leading values, then the remainder with the rest
BindingsWithRemainder(lhs, rhs) ==
    [i \in 1..Len(lhs) |->
        IF i < Len(lhs)
        THEN SingleBinding(ToAnnName(lhs[i]).v, rhs[i])
        ELSE MultipleBinding(ToVar(lhs[i]).v, SubSeq(rhs, i, Len(rhs)))]

\* C32: for a declaration whose left-hand side has a remainder and whose
\* right-hand arity is at least the left-hand arity, the calls of next()
\* return lhs_arity - 1 Single bindings of the leading names to the leading
\* values, then one Multiple binding of the remainder to the values from
\* index lhs_arity - 1 on, and None from then on.
C32_SinglesThenOneMultiple ==
    ( /\ iter_state.tag = "iter"
      /\ iter_decl.lhs_has_cont
      /\ iter_decl.rhs_arity >= iter_decl.lhs_arity )
    => LET lhs == Take(iter_slice, iter_decl.lhs_arity)
           rhs == Drop(iter_slice, iter_decl.lhs_arity)
       IN \A i \in 1..Len(yielded) :
             yielded[i] = IF i <= Len(lhs) THEN BindingsWithRemainder(lhs, rhs)[i]
                          ELSE NoItem

----------------------------------------------------------------------------
(* The error collector *)

\* the recorded errors that report the error or missing-token node n
ReportsOf(n) ==
    { i \in 1..Len(errors) :
        /\ errors[i].span = n
        /\ errors[i].error.tag \in {"SyntaxError", "Unexpected", "MissingToken"} }

\* node n lies directly in an error node
InErrorNode(n) == cst[n].parent # 0 /\ cst[cst[n].parent].kind = "ERROR"

\* C33: when the walk has returned, no error node is reported more than
\* once, an error node whose parent is an error node is not reported at all,
\* and every missing-token node is reported exactly once, as MissingToken
\* with the name of the expected token.
C33_ErrorNodesReportedOnce ==
    Returned =>
        \A n \in 1..Len(cst) :
            /\ cst[n].kind = "ERROR" =>
                  /\ Cardinality(ReportsOf(n)) <= 1
                  /\ InErrorNode(n) => ReportsOf(n) = {}
                  /\ \A i \in ReportsOf(n) : errors[i].error.tag # "MissingToken"
            /\ cst[n].kind = "MISSING" =>
                  /\ Cardinality(ReportsOf(n)) = 1
                  /\ \A i \in ReportsOf(n) :
                        errors[i].error = [tag |-> "MissingToken",
                                           token |-> cst[n].info.content]

\* the walk of an error node that holds an error node has returned, with the
\* outer node as the one error
C33_Witness ==
    /\ Returned
    /\ \E n \in 1..Len(cst) : cst[n].kind = "ERROR" /\ InErrorNode(n)
    /\ Len(errors) = 1
    /\ errors[1].span = 1

----------------------------------------------------------------------------
(* String literals *)

\* a text without its first and its last character
WithoutDelimiters(text) == SubSeq(text, 2, Len(text) - 1)

\* C35: the StringLiteral made for a string_literal node holds the text of
\* the node without its opening and its closing double quote, and with every
\* quote of the content.
C35_StringLiteralLosesOnlyItsDelimiters ==
    \A k \in 1..Len(made) :
        ( /\ made[k].span \in 1..Len(cst)
          /\ cst[made[k].span].kind = "string_literal" )
        => made[k].proc = [tag |-> "StringLiteral",
                           value |-> WithoutDelimiters(cst[made[k].span].info.text)]

----------------------------------------------------------------------------
(* The Bad sentinel *)

\* the driver has pushed the Bad sentinel
PushedBad == \E k \in 1..Len(made) : made[k].proc = BAD

\* C36: when the driver has pushed Bad, for an error node, a missing-token
\* node or a literal out of range, and the walk returns, at least one error
\* is recorded and the result is a ParsingFailure; a Good result comes from a
\* walk that never pushed Bad.
C36_BadMeansParsingFailure ==
    Returned =>
        /\ PushedBad => (errors # <<>> /\ result.tag = "ParsingFailure")
        /\ result.tag = "Good" => (~PushedBad /\ result.v.proc # BAD)

\* a walk that pushed Bad for a missing-token node below the root has
\* returned a ParsingFailure
C36_Witness ==
    /\ Failed
    /\ \E k \in 1..Len(made) :
          /\ made[k].proc = BAD
          /\ made[k].span \in 2..Len(cst)
          /\ cst[made[k].span].kind = "MISSING"

----------------------------------------------------------------------------
(* The declarations of a New *)

\* identifier x is not after identifier y in the order of str::cmp
NotAfter(x, y) == x = y \/ (x = "a" /\ y = "b")

\* C37: the decls of every New built are the declarations of its `new` node,
\* each as often as the source has it, in non-decreasing order of their
\* identifiers, whatever their order in the source.
C37_NewDeclsSortedByName ==
    \A k \in 1..Len(made) :
        made[k].proc.tag = "New" =>
            /\ IsPermutationOf(SourceDeclsOf(made[k].span), made[k].proc.decls)
            /\ \A i \in 1..(Len(made[k].proc.decls) - 1) :
                  NotAfter(made[k].proc.decls[i].id.name,
                           made[k].proc.decls[i + 1].id.name)

\* `new b, a` has returned a New whose decls are a, b
C37_Witness ==
    /\ Returned
    /\ result.tag = "Good"
    /\ result.v.proc.tag = "New"
    /\ cst[1].info.names = <<"b", "a">>
    /\ result.v.proc.decls[1].id.name = "a"
    /\ result.v.proc.decls[2].id.name = "b"
    /\ result.v.proc.decls[1].id.pos > result.v.proc.decls[2].id.pos

----------------------------------------------------------------------------
(* The duplicate scan of a `new` *)

GivenPid == { c \in DOMAIN calls : calls[c].pid # 0 }

\* C39: the calls of interpret are given pairwise different pids, the first
\* one 1 and every later one a greater pid than all before it, so the pid of
\* a call that has returned or was killed is given to no other call.
C39_PidsDistinctAndIncreasing ==
    /\ \A c, d \in GivenPid : c < d => calls[c].pid < calls[d].pid
    /\ \A c \in GivenPid : (\A d \in GivenPid : c <= d) => calls[c].pid = 1
    /\ \A c \in GivenPid : calls[c].pid < next_pid
    /\ \A pid \in DOMAIN killed_by \cup DOMAIN processes :
          Cardinality({ c \in GivenPid : calls[c].pid = pid }) = 1

\* the first call was killed and has returned, and a second call, in flight
\* beside it, holds pid 2
C39_Witness ==
    /\ Len(calls) = 2
    /\ calls[1].pid = 1
    /\ calls[1].at = "returned"
    /\ 1 \in DOMAIN killed_by
    /\ calls[2].pid = 2
    /\ calls[2].at = "awaiting"
    /\ DOMAIN processes = {2}

----------------------------------------------------------------------------
(* The provider under a fair scheduler *)

\* The runtime polls every future that is ready, timers fire, and a lock
\* that is free is taken: each step of a call of interpret and of its task
\* that stays possible is taken in the end.  The calls of set_delay,
\* list_processes, kill_process and kill_all_processes are up to the caller.
ProviderFairness ==
    \A c \in 1..MaxCalls :
        /\ WF_vars(c \in DOMAIN calls /\ InterpretRegister(c))
        /\ WF_vars(c \in DOMAIN calls /\ InterpretSpawn(c))
        /\ WF_vars(c \in DOMAIN calls /\ Elapse(c))
        /\ WF_vars(c \in DOMAIN calls /\ TaskFinish(c))
        /\ WF_vars(c \in DOMAIN calls /\ InterpretEnd(c))

SpecProviderFair == InitProvider /\ [][NextProvider]_vars /\ ProviderFairness

\* the results a spawned task may finish with: the parse, the timeout, the
\* cancellation
TaskResults == { Parsed(code) : code \in Codes } \cup { TimedOut, Cancelled }

\* at most one of the three locked values changes in the step
OneLockedValueChanges ==
    Cardinality({ i \in 1..3 :
                    <<processes, next_pid, delay_ms>>[i]' # <<processes, next_pid, delay_ms>>[i] })
        <= 1

\* C34: every call of interpret returns in the end; its task finishes with
\* the result of the parse, with the timeout or with the cancellation; and no
\* step holds two of the locks of processes, next_pid and delay_ms.
C34_EveryInterpretReturns ==
    /\ \A c \in 1..MaxCalls :
          (c \in DOMAIN calls) ~> (c \in DOMAIN calls /\ calls[c].at = "returned")
    /\ [](\A c \in DOMAIN tasks :
             tasks[c].state = "finished" => tasks[c].result \in TaskResults)
    /\ [][OneLockedValueChanges]_vars

\* a call whose delay is beyond the timeout has returned the timeout error,
\* beside a call that has returned the cancellation
C34_Witness ==
    /\ Len(calls) = 2
    /\ calls[1].at = "returned"
    /\ calls[1].ret = TimedOut
    /\ calls[2].at = "returned"
    /\ calls[2].ret = Cancelled

----------------------------------------------------------------------------
(* The mode after an open line *)

\* the step takes the shell out of multiline mode
LeavesMultiline == multiline /\ ~multiline'

\* the step is a call of process_special_command with the .mode command
ModeCommandStep == CallOf("process_special_command") /\ last_call'.line = DOT_MODE

\* C40: once process_single_line_input has switched the shell to multiline
\* mode for a line that ended inside a bracket, the mode is multiline until a
\* .mode command: neither the call of process_multiline_input that returns
\* the accumulated command nor handle_interrupt leaves multiline mode.
C40_ModeStaysMultiline ==
    /\ [](switched_by_input => multiline)
    /\ [][LeavesMultiline => ModeCommandStep]_vars

\* the open line switched the mode and the accumulated command has been
\* returned for execution: the mode is still multiline
C40_Witness ==
    /\ switched_by_input
    /\ multiline
    /\ last_call.fn = "process_multiline_input"
    /\ last_call.ret = Ok(SomeCommand(Join(<<<<"{">>, <<"a">>>>)))

====
